-------------------------- MODULE AvsRegistryProofs --------------------------
(***************************************************************************)
(* Proofs about AvsRegistry, for any addresses, chains, requests,          *)
(* registrations and configured AVSs; and, further below, about the        *)
(* configuration of hgctl, with which an operator is set up.               *)
(***************************************************************************)
EXTENDS AvsRegistry, HgctlConfig, TLAPS

\* The map names a registration of the address it is stored under, and one that was
\* stored and not deregistered since is the one in the map.
MapIsBooked ==
    /\ \A a \in Addresses : managers[a] # None =>
          /\ reg[managers[a]].addr = a
          /\ reg[managers[a]].at \in {"stored", "done"}
          /\ managers[a] \notin deregistered
    /\ \A r \in Regs : reg[r].at \in {"stored", "done"} /\ r \notin deregistered =>
          managers[reg[r].addr] = r

\* Only stored registrations are deregistered, and one whose context still lives has its
\* cancel function still to be called.
DeregisteredAreCancelled ==
    /\ \A r \in deregistered : reg[r].at \in {"stored", "done"}
    /\ cancelling \subseteq deregistered
    /\ deregistered \cap ctx \subseteq cancelling

\* A context lives from the first check to the failure, the deregistration or the end of
\* the process; before the start there is no registration.
ContextsFollow ==
    /\ phase \in {"setup", "built"} => \A r \in Regs : reg[r].at = "idle"
    /\ \A r \in ctx : reg[r].at \notin {"idle", "failed"}
    /\ phase \in {"starting", "serving"} =>
          \A r \in Regs : reg[r].at \notin {"idle", "failed"} /\ r \notin deregistered => r \in ctx

\* The manager's goroutine starts with the reply, and stops only without a context.
ConsumersFollow ==
    \A r \in Regs :
        /\ consumer[r] = "off" <=> reg[r].at # "done"
        /\ consumer[r] = "stopped" => r \notin ctx

\* A task past the queue, in the store or before the last processed block was taken.
OffersWereTaken ==
    /\ \A r \in Regs : reg[r].at = "idle" => \A c \in Chains : poller[r][c] = "off"
    /\ \A r \in Regs, c \in Chains :
          poller[r][c] = "offered" => taken[AvsOf[reg[r].addr]][c] # {}
    /\ \A v \in Avss, c \in Chains : <<v, c>> \in stored => taken[v][c] # {}
    /\ PassedWasTaken

\* What the inductive invariant says of registrations, beyond the types.
Booked == MapIsBooked /\ DeregisteredAreCancelled /\ ContextsFollow /\ ConsumersFollow

IInv == TypeOK /\ Booked /\ OffersWereTaken

-----------------------------------------------------------------------------
(* Types *)

\* What changing one entry of a table of tables does to its type and to its entries.
LEMMA TableUpdate ==
    ASSUME NEW S, NEW T, NEW U, NEW f \in [S -> [T -> U]],
           NEW s \in S, NEW t \in T, NEW u \in U
    PROVE  /\ [f EXCEPT ![s][t] = u] \in [S -> [T -> U]]
           /\ \A x \in S, y \in T :
                [f EXCEPT ![s][t] = u][x][y] = IF x = s /\ y = t THEN u ELSE f[x][y]
<1>1. [f[s] EXCEPT ![t] = u] \in [T -> U]
    OBVIOUS
<1> QED
    BY <1>1

\* A registration has a step, an address and chains, and its AVS is one of the AVSs.
LEMMA RegFacts ==
    ASSUME TypeOK, NEW r \in Regs
    PROVE  /\ reg[r] \in RegRecords
           /\ reg[r].addr \in Addresses
           /\ AvsOf[reg[r].addr] \in Avss
<1>1. reg[r] \in RegRecords
    BY DEF TypeOK
<1>2. reg[r].addr \in Addresses
    BY <1>1 DEF RegRecords
<1> QED
    BY <1>1, <1>2 DEF Avss

\* A registration that is checked becomes a well typed record.
LEMMA RegisterType ==
    ASSUME TypeOK, NEW r \in Regs, NEW by \in {"rpc", "config"}, NEW a \in Addresses,
           NEW chains \in Requests, registerAvs(r, by, a, chains)
    PROVE  reg' \in [Regs -> RegRecords] /\ ctx' \subseteq Regs
<1>1. \A at \in {"failed", "polling"} :
        [at |-> at, by |-> by, addr |-> a, chains |-> chains] \in RegRecords
    BY DEF RegRecords
<1> QED
    BY <1>1 DEF TypeOK, registerAvs

\* A registration that moves on stays well typed, and only its step changes.
LEMMA Moves ==
    ASSUME TypeOK, NEW r \in Regs,
           NEW at \in {"started", "created", "stored", "done", "failed"},
           reg' = [reg EXCEPT ![r].at = at]
    PROVE  /\ reg' \in [Regs -> RegRecords]
           /\ \A s \in Regs : reg'[s].addr = reg[s].addr
           /\ \A s \in Regs : reg'[s].at = IF s = r THEN at ELSE reg[s].at
<1>a. reg[r] \in RegRecords
    BY DEF TypeOK
<1>1. reg[r] \in RegRecords /\ [reg[r] EXCEPT !.at = at] \in RegRecords
    BY <1>a DEF RegRecords
<1>2. [reg[r] EXCEPT !.at = at].at = at /\ [reg[r] EXCEPT !.at = at].addr = reg[r].addr
    BY <1>1 DEF RegRecords
<1>3. reg' = [reg EXCEPT ![r] = [reg[r] EXCEPT !.at = at]]
    BY DEF TypeOK
<1> QED
    BY <1>1, <1>2, <1>3 DEF TypeOK

\* The fate of a registration that fails is the same whatever step it fails at.
LEMMA Fails ==
    ASSUME TypeOK, NEW r \in Regs, RegistrationFails(r) PROVE TypeOK'
<1>1. reg' \in [Regs -> RegRecords]
    BY Moves DEF RegistrationFails
<1> QED
    BY <1>1 DEF TypeOK, RegistrationFails, DeferredCancel, work

\* Saving a block keeps the table of last processed blocks well typed.
LEMMA PassType ==
    ASSUME TypeOK, NEW r \in Regs, NEW c \in Chains, Pass(r, c)
    PROVE  last' \in [Addresses -> [Chains -> LastBlocks]]
<1> DEFINE a == reg[r].addr
<1>1. a \in Addresses /\ "past" \in LastBlocks
    BY RegFacts DEF LastBlocks
<1>2. last' = last \/ last' = [last EXCEPT ![a][c] = "past"]
    BY DEF Pass
<1>3. last \in [Addresses -> [Chains -> LastBlocks]]
    BY DEF TypeOK
<1> HIDE DEF a
<1>4. [last EXCEPT ![a][c] = "past"] \in [Addresses -> [Chains -> LastBlocks]]
    BY <1>1, <1>3, TableUpdate
<1> QED
    BY <1>2, <1>3, <1>4

\* A poller's next state is well typed.
LEMMA PollerType ==
    ASSUME TypeOK, NEW r \in Regs, NEW c \in Chains,
           NEW at \in PollerSteps,
           poller' = [poller EXCEPT ![r][c] = at]
    PROVE  /\ poller' \in [Regs -> [Chains -> PollerSteps]]
           /\ \A s \in Regs, d \in Chains :
                 poller'[s][d] = IF s = r /\ d = c THEN at ELSE poller[s][d]
BY TableUpdate DEF TypeOK

\* Every action keeps the state well typed.
LEMMA TypeStep == ASSUME TypeOK, Next PROVE TypeOK'
<1> USE DEF work
<1>a. <<>> \in Seq(Entries)
    OBVIOUS
<1>b. {"error", "idle", "offering", "offered", "stopped"} \subseteq PollerSteps
    BY DEF PollerSteps
<1>1. ASSUME SetUp \/ Initialize \/ SetUpFails \/ ServerStarts PROVE TypeOK'
    BY <1>1, <1>a DEF TypeOK, SetUp, Initialize, SetUpFails, ServerStarts
<1>2. ASSUME StartFails \/ Stop PROVE TypeOK'
    BY <1>2, <1>a DEF TypeOK, StartFails, Stop
<1>3. ASSUME NEW a \in Addresses, DeRegisterAvs(a) PROVE TypeOK'
    BY <1>3 DEF TypeOK, DeRegisterAvs
<1>4. ASSUME NEW c \in Chains, MineBlock(c) PROVE TypeOK'
    BY <1>4 DEF TypeOK, MineBlock
<1>5. ASSUME NEW r \in Regs, RegisterConfigured(r) PROVE TypeOK'
    <2>1. Head(todo) \in Entries /\ Tail(todo) \in Seq(Entries)
        BY <1>5 DEF TypeOK, RegisterConfigured
    <2>2. Head(todo).addr \in Addresses /\ Head(todo).chains \in Requests
        BY <2>1 DEF Entries
    <2>3. reg' \in [Regs -> RegRecords] /\ ctx' \subseteq Regs
        BY <1>5, <2>2, RegisterType DEF RegisterConfigured
    <2> QED
        BY <1>5, <2>1, <2>3 DEF TypeOK, RegisterConfigured, registerAvs
<1>6. ASSUME NEW r \in Regs, RegisterAvs(r) PROVE TypeOK'
    <2>1. reg' \in [Regs -> RegRecords] /\ ctx' \subseteq Regs
        BY <1>6, RegisterType DEF RegisterAvs
    <2> QED
        BY <1>6, <2>1 DEF TypeOK, RegisterAvs, registerAvs
<1>8. ASSUME NEW r \in Regs, PollersStarted(r) PROVE TypeOK'
    BY <1>8, Fails, Moves DEF PollersStarted, TypeOK
<1>9. ASSUME NEW r \in Regs, CreateManager(r) PROVE TypeOK'
    BY <1>9, Fails, Moves DEF CreateManager, TypeOK
<1>10. ASSUME NEW r \in Regs, storeAvsManager(r) PROVE TypeOK'
    <2>1. CASE RegistrationFails(r)
        BY <2>1, Fails
    <2>2. CASE ~RegistrationFails(r)
        <3>1. [managers EXCEPT ![reg[r].addr] = r] \in [Addresses -> Regs \cup {None}]
            BY DEF TypeOK
        <3> QED
            BY <1>10, <2>2, <3>1, Moves DEF storeAvsManager, TypeOK
    <2> QED
        BY <2>1, <2>2
<1>11. ASSUME NEW r \in Regs, StartManager(r) PROVE TypeOK'
    BY <1>11, Moves DEF StartManager, TypeOK
<1>12. ASSUME NEW r \in Regs, CancelDeregistered(r) PROVE TypeOK'
    BY <1>12 DEF TypeOK, CancelDeregistered
<1>13. ASSUME NEW r \in Regs, TaskEnds(r) \/ ManagerStops(r) PROVE TypeOK'
    BY <1>13 DEF TypeOK, TaskEnds, ManagerStops
<1>14. ASSUME NEW r \in Regs, NEW c \in Chains, StartPoller(r, c) PROVE TypeOK'
    <2>1. poller' \in [Regs -> [Chains -> PollerSteps]]
        BY <1>14, <1>b, PollerType DEF StartPoller
    <2>2. last' \in [Addresses -> [Chains -> LastBlocks]]
        <3> DEFINE l == last[reg[r].addr][c]
                   b == IF l # "none" THEN l ELSE IF c \in mined THEN "skipped" ELSE "before"
        <3>1. reg[r].addr \in Addresses
            BY RegFacts
        <3>2. b \in LastBlocks
            BY <3>1 DEF TypeOK, LastBlocks
        <3>3. last' = last \/ last' = [last EXCEPT ![reg[r].addr][c] = b]
            BY <1>14, <3>1 DEF StartPoller, TypeOK
        <3>4. last \in [Addresses -> [Chains -> LastBlocks]]
            BY DEF TypeOK
        <3> HIDE DEF b
        <3>5. [last EXCEPT ![reg[r].addr][c] = b] \in [Addresses -> [Chains -> LastBlocks]]
            BY <3>1, <3>2, <3>4, TableUpdate
        <3> QED
            BY <3>3, <3>4, <3>5
    <2> QED
        BY <1>14, <2>1, <2>2 DEF TypeOK, StartPoller
<1>15. ASSUME NEW r \in Regs, NEW c \in Chains, Poll(r, c) PROVE TypeOK'
    BY <1>15, <1>b, PassType, PollerType DEF TypeOK, Poll
<1>16. ASSUME NEW r \in Regs, NEW c \in Chains, NotTaken(r, c) \/ PollerStops(r, c) PROVE TypeOK'
    <2>1. poller' \in [Regs -> [Chains -> PollerSteps]]
        BY <1>16, <1>b, PollerType DEF NotTaken, PollerStops
    <2> QED
        BY <1>16, <2>1 DEF TypeOK, NotTaken, PollerStops
<1>17. ASSUME NEW r \in Regs, NEW c \in Chains, SaveTask(r, c) PROVE TypeOK'
    <2>1. stored' \subseteq Avss \X Chains
        <3>1. Task(r, c) \in Avss \X Chains
            BY RegFacts DEF Task
        <3>2. stored \subseteq Avss \X Chains
            BY DEF TypeOK
        <3> QED
            BY <1>17, <3>1, <3>2 DEF SaveTask
    <2> QED
        BY <1>17, <1>b, <2>1, PassType, PollerType DEF TypeOK, SaveTask
<1>18. ASSUME NEW r \in Regs, NEW c \in Chains, Take(r, c) PROVE TypeOK'
    <2> DEFINE v == AvsOf[reg[r].addr]
    <2>1. v \in Avss
        BY RegFacts
    <2>2. taken[v][c] \cup {r} \in SUBSET Regs
        BY <2>1 DEF TypeOK
    <2>3. taken' = [taken EXCEPT ![v][c] = taken[v][c] \cup {r}]
        BY <1>18, <2>1 DEF Take, TypeOK
    <2> HIDE DEF v
    <2>4. taken' \in [Avss -> [Chains -> SUBSET Regs]]
        BY <2>1, <2>2, <2>3, TableUpdate DEF TypeOK
    <2> QED
        BY <1>18, <1>b, <2>4, PollerType DEF TypeOK, Take
<1> QED
    BY <1>1, <1>2, <1>3, <1>4, <1>5, <1>6, <1>8, <1>9, <1>10, <1>11, <1>12, <1>13, <1>14,
       <1>15, <1>16, <1>17, <1>18 DEF Next, Register, PollerStep

-----------------------------------------------------------------------------
(* The map and the contexts *)

\* Booked depends on no poller, on no block and on no task.
LEMMA BookedFrame ==
    ASSUME Booked,
           UNCHANGED <<phase, managers, reg, ctx, cancelling, consumer, deregistered>>
    PROVE  Booked'
BY DEF Booked, MapIsBooked, DeregisteredAreCancelled, ContextsFollow, ConsumersFollow

\* The first check: the registration gets a context, or fails without having had one.
LEMMA BookedRegister ==
    ASSUME TypeOK, Booked, NEW r \in Regs, NEW by, NEW a, NEW chains,
           registerAvs(r, by, a, chains), phase \in {"starting", "serving"}, phase' = phase
    PROVE  Booked'
<1> USE DEF registerAvs, work
<1>1. reg[r].at = "idle"
    OBVIOUS
<1>2. \A s \in Regs : s # r => reg'[s] = reg[s]
    BY DEF TypeOK
<1>3. reg'[r].at \in {"failed", "polling"} /\ (reg'[r].at = "failed" => ctx' = ctx)
      /\ (reg'[r].at = "polling" => ctx' = ctx \cup {r})
    BY DEF TypeOK
<1>a. r \notin ctx
    BY <1>1 DEF Booked, ContextsFollow
<1>b. r \notin deregistered
    BY <1>1 DEF Booked, DeregisteredAreCancelled
<1>c. ASSUME NEW b \in Addresses PROVE managers[b] # r
    BY <1>1, RegistryConstants DEF Booked, MapIsBooked
<1>4. r \notin deregistered /\ r \notin ctx /\ \A b \in Addresses : managers[b] # r
    BY <1>a, <1>b, <1>c
<1>5. MapIsBooked'
    <2>1. ASSUME NEW b \in Addresses, managers[b] # None
          PROVE  managers[b] \in Regs /\ reg'[managers[b]] = reg[managers[b]]
        BY <1>2, <1>4, <2>1 DEF TypeOK
    <2>2. ASSUME NEW s \in Regs, reg'[s].at \in {"stored", "done"}
          PROVE  reg'[s] = reg[s]
        BY <1>2, <1>3, <2>2
    <2> QED
        BY <2>1, <2>2 DEF Booked, MapIsBooked
<1>6. DeregisteredAreCancelled'
    BY <1>2, <1>3, <1>4 DEF TypeOK, Booked, DeregisteredAreCancelled
<1>7. ContextsFollow'
    BY <1>2, <1>3, <1>4 DEF TypeOK, Booked, ContextsFollow
<1>8. ConsumersFollow'
    BY <1>1, <1>2, <1>3 DEF TypeOK, Booked, ConsumersFollow
<1> QED
    BY <1>5, <1>6, <1>7, <1>8 DEF Booked

\* A registration that fails was not in the map, and loses its context.
LEMMA BookedFails ==
    ASSUME TypeOK, Booked, NEW r \in Regs, RegistrationFails(r),
           reg[r].at \in {"polling", "started", "created"}
    PROVE  Booked'
<1> USE DEF RegistrationFails, DeferredCancel, work
<1>1. \A s \in Regs : reg'[s].addr = reg[s].addr
    BY Moves
<1>2. \A s \in Regs : reg'[s].at = IF s = r THEN "failed" ELSE reg[s].at
    BY Moves
<1>3. r \notin deregistered /\ \A b \in Addresses : managers[b] # r
    BY RegistryConstants DEF Booked, MapIsBooked, DeregisteredAreCancelled
<1>4. MapIsBooked'
    BY <1>1, <1>2, <1>3 DEF TypeOK, Booked, MapIsBooked
<1>5. DeregisteredAreCancelled'
    BY <1>1, <1>2, <1>3 DEF TypeOK, Booked, DeregisteredAreCancelled
<1>6. ContextsFollow'
    BY <1>1, <1>2, <1>3 DEF TypeOK, Booked, ContextsFollow
<1>7. ConsumersFollow'
    BY <1>2 DEF TypeOK, Booked, ConsumersFollow
<1> QED
    BY <1>4, <1>5, <1>6, <1>7 DEF Booked

\* A registration that moves on before it is stored changes nothing but its step.
LEMMA BookedAdvances ==
    ASSUME TypeOK, Booked, NEW r \in Regs, NEW at \in {"started", "created"},
           reg[r].at \in {"polling", "started"}, reg' = [reg EXCEPT ![r].at = at],
           UNCHANGED <<phase, managers, ctx, cancelling, consumer, deregistered>>
    PROVE  Booked'
<1>1. \A s \in Regs : reg'[s].addr = reg[s].addr
    BY Moves
<1>2. \A s \in Regs : reg'[s].at = IF s = r THEN at ELSE reg[s].at
    BY Moves
<1>3. r \notin deregistered /\ \A b \in Addresses : managers[b] # r
    BY RegistryConstants DEF Booked, MapIsBooked, DeregisteredAreCancelled
<1>4. MapIsBooked'
    BY <1>1, <1>2, <1>3 DEF TypeOK, Booked, MapIsBooked
<1>5. DeregisteredAreCancelled'
    BY <1>1, <1>2, <1>3 DEF TypeOK, Booked, DeregisteredAreCancelled
<1>6. ContextsFollow'
    BY <1>1, <1>2, <1>3 DEF TypeOK, Booked, ContextsFollow
<1>7. ConsumersFollow'
    BY <1>2 DEF TypeOK, Booked, ConsumersFollow
<1> QED
    BY <1>4, <1>5, <1>6, <1>7 DEF Booked

\* The second check, under the lock: the address is free, so no other registration of it
\* is stored and not deregistered.
LEMMA BookedStore ==
    ASSUME TypeOK, Booked, NEW r \in Regs, storeAvsManager(r)
    PROVE  Booked'
<1>1. CASE RegistrationFails(r)
    BY <1>1, BookedFails DEF storeAvsManager
<1>2. CASE ~RegistrationFails(r)
    <2> USE DEF storeAvsManager, work
    <2> DEFINE a == reg[r].addr
    <2>1. managers[a] = None /\ managers' = [managers EXCEPT ![a] = r] /\ a \in Addresses
        BY <1>2, RegFacts DEF StillFree
    <2>2. \A s \in Regs : reg'[s].addr = reg[s].addr
        BY <1>2, Moves
    <2>3. \A s \in Regs : reg'[s].at = IF s = r THEN "stored" ELSE reg[s].at
        BY <1>2, Moves
    <2>4. r \notin deregistered /\ reg[r].at = "created"
        BY <1>2 DEF TypeOK, Booked, DeregisteredAreCancelled
    <2>5. \A s \in Regs : reg[s].at \in {"stored", "done"} /\ s \notin deregistered => reg[s].addr # a
        BY <2>1, RegistryConstants DEF Booked, MapIsBooked
    <2> HIDE DEF a
    <2>6. MapIsBooked'
        <3>1. \A b \in Addresses : managers'[b] = IF b = a THEN r ELSE managers[b]
            BY <2>1 DEF TypeOK
        <3>2. UNCHANGED deregistered
            BY <1>2
        <3>3. \A s \in Regs : reg[s].addr \in Addresses
            BY RegFacts
        <3>4. reg[r].addr = a
            BY DEF a
        <3>5. ASSUME NEW b \in Addresses, managers'[b] # None
              PROVE  reg'[managers'[b]].addr = b /\ reg'[managers'[b]].at \in {"stored", "done"}
                     /\ managers'[b] \notin deregistered
            <4>1. CASE b = a
                BY <4>1, <2>2, <2>3, <2>4, <3>1, <3>4
            <4>2. CASE b # a
                BY <4>2, <2>2, <2>3, <3>1, <3>5 DEF TypeOK, Booked, MapIsBooked
            <4> QED
                BY <4>1, <4>2
        <3>6. ASSUME NEW s \in Regs, reg'[s].at \in {"stored", "done"}, s \notin deregistered
              PROVE  managers'[reg'[s].addr] = s
            BY <2>2, <2>3, <2>5, <3>1, <3>3, <3>4, <3>6 DEF Booked, MapIsBooked
        <3> QED
            BY <3>2, <3>5, <3>6 DEF MapIsBooked
    <2>7. DeregisteredAreCancelled'
        BY <1>2, <2>3, <2>4 DEF TypeOK, Booked, DeregisteredAreCancelled
    <2>8. ContextsFollow'
        BY <1>2, <2>3, <2>4 DEF TypeOK, Booked, ContextsFollow
    <2>9. ConsumersFollow'
        BY <1>2, <2>3, <2>4 DEF TypeOK, Booked, ConsumersFollow
    <2> QED
        BY <2>6, <2>7, <2>8, <2>9 DEF Booked
<1> QED
    BY <1>1, <1>2

\* The reply: the manager's goroutine is started.
LEMMA BookedStart ==
    ASSUME TypeOK, Booked, NEW r \in Regs, StartManager(r)
    PROVE  Booked'
<1> USE DEF StartManager
<1>1. \A s \in Regs : reg'[s].addr = reg[s].addr
    BY Moves
<1>2. \A s \in Regs : reg'[s].at = IF s = r THEN "done" ELSE reg[s].at
    BY Moves
<1>3. MapIsBooked'
    BY <1>1, <1>2, RegistryConstants DEF TypeOK, Booked, MapIsBooked
<1>4. DeregisteredAreCancelled'
    BY <1>2 DEF TypeOK, Booked, DeregisteredAreCancelled
<1>5. ContextsFollow'
    BY <1>2 DEF TypeOK, Booked, ContextsFollow
<1>6. ConsumersFollow'
    BY <1>2 DEF TypeOK, Booked, ConsumersFollow
<1> QED
    BY <1>3, <1>4, <1>5, <1>6 DEF Booked

\* A deregistration takes the only registration of the address out of the map.
LEMMA BookedDeregister ==
    ASSUME TypeOK, Booked, NEW a \in Addresses, DeRegisterAvs(a)
    PROVE  Booked'
<1> USE DEF DeRegisterAvs, work
<1>1. managers[a] \in Regs
    BY DEF TypeOK
<1>2. MapIsBooked'
    BY <1>1, RegFacts, RegistryConstants DEF TypeOK, Booked, MapIsBooked
<1>3. DeregisteredAreCancelled'
    BY DEF TypeOK, Booked, MapIsBooked, DeregisteredAreCancelled
<1>4. ContextsFollow' /\ ConsumersFollow'
    BY DEF TypeOK, Booked, ContextsFollow, ConsumersFollow
<1> QED
    BY <1>2, <1>3, <1>4 DEF Booked

\* Every action keeps the map, the contexts and the goroutines in step.
LEMMA BookedStep == ASSUME TypeOK, Booked, Next PROVE Booked'
<1> USE DEF work
<1>1. ASSUME SetUp \/ Initialize \/ SetUpFails \/ ServerStarts PROVE Booked'
    BY <1>1 DEF SetUp, Initialize, SetUpFails, ServerStarts, Booked, MapIsBooked,
                DeregisteredAreCancelled, ContextsFollow, ConsumersFollow
<1>2. ASSUME StartFails \/ Stop PROVE Booked'
    BY <1>2 DEF StartFails, Stop, Booked, MapIsBooked,
                DeregisteredAreCancelled, ContextsFollow, ConsumersFollow
<1>3. ASSUME NEW a \in Addresses, DeRegisterAvs(a) PROVE Booked'
    BY <1>3, BookedDeregister
<1>4. ASSUME NEW c \in Chains, MineBlock(c) PROVE Booked'
    BY <1>4, BookedFrame DEF MineBlock
<1>5. ASSUME NEW r \in Regs, RegisterConfigured(r) \/ RegisterAvs(r) PROVE Booked'
    BY <1>5, BookedRegister DEF RegisterConfigured, RegisterAvs
<1>6. ASSUME NEW r \in Regs, PollersStarted(r) \/ CreateManager(r) PROVE Booked'
    BY <1>6, BookedFails, BookedAdvances DEF PollersStarted, CreateManager
<1>7. ASSUME NEW r \in Regs, storeAvsManager(r) \/ StartManager(r) PROVE Booked'
    BY <1>7, BookedStore, BookedStart
<1>8. ASSUME NEW r \in Regs, CancelDeregistered(r) PROVE Booked'
    BY <1>8 DEF TypeOK, CancelDeregistered, Booked, MapIsBooked,
                DeregisteredAreCancelled, ContextsFollow, ConsumersFollow
<1>9. ASSUME NEW r \in Regs, TaskEnds(r) \/ ManagerStops(r) PROVE Booked'
    BY <1>9 DEF TypeOK, TaskEnds, ManagerStops, Booked, MapIsBooked,
                DeregisteredAreCancelled, ContextsFollow, ConsumersFollow
<1>10. ASSUME NEW r \in Regs, NEW c \in Chains, StartPoller(r, c) \/ PollerStep(r, c) PROVE Booked'
    BY <1>10, BookedFrame DEF StartPoller, PollerStep, Poll, NotTaken, SaveTask, PollerStops
<1>11. ASSUME NEW r \in Regs, NEW c \in Chains, Take(r, c) PROVE Booked'
    BY <1>11 DEF TypeOK, Take, Booked, MapIsBooked,
                DeregisteredAreCancelled, ContextsFollow, ConsumersFollow
<1> QED
    BY <1>1, <1>2, <1>3, <1>4, <1>5, <1>6, <1>7, <1>8, <1>9, <1>10, <1>11 DEF Next, Register

-----------------------------------------------------------------------------
(* Tasks *)

\* Registrations may come and move on: one that had a poller keeps its address.
LEMMA OffersFrame ==
    ASSUME OffersWereTaken, UNCHANGED <<poller, last, stored, taken>>,
           \A r \in Regs : /\ reg'[r].at = "idle" => reg[r].at = "idle"
                           /\ reg[r].at # "idle" => reg'[r].addr = reg[r].addr
    PROVE  OffersWereTaken'
BY DEF OffersWereTaken, PassedWasTaken

\* A block is saved only when its task was taken.
LEMMA OffersPass ==
    ASSUME TypeOK, OffersWereTaken, NEW r \in Regs, NEW c \in Chains, Pass(r, c),
           taken[AvsOf[reg[r].addr]][c] # {}, UNCHANGED taken
    PROVE  PassedWasTaken'
<1> DEFINE a == reg[r].addr
<1>1. a \in Addresses
    BY RegFacts
<1>2. last' = last \/ last' = [last EXCEPT ![a][c] = "past"]
    BY DEF Pass
<1>3. taken[AvsOf[a]][c] # {} /\ "past" \in LastBlocks /\ last \in [Addresses -> [Chains -> LastBlocks]]
    BY DEF TypeOK, LastBlocks
<1> HIDE DEF a
<1>4. \A b \in Addresses, d \in Chains :
        [last EXCEPT ![a][c] = "past"][b][d] = IF b = a /\ d = c THEN "past" ELSE last[b][d]
    BY <1>1, <1>3, TableUpdate
<1> QED
    BY <1>2, <1>3, <1>4 DEF OffersWereTaken, PassedWasTaken

\* A poller of a registration that is under way moves, to a state where it has not just
\* had its task taken.
LEMMA OffersPoller ==
    ASSUME TypeOK, OffersWereTaken, NEW r \in Regs, NEW c \in Chains,
           NEW at \in PollerSteps \ {"offered"}, reg[r].at # "idle",
           poller' = [poller EXCEPT ![r][c] = at], UNCHANGED <<reg, stored, taken>>,
           PassedWasTaken'
    PROVE  OffersWereTaken'
<1>1. \A s \in Regs, d \in Chains : poller'[s][d] = IF s = r /\ d = c THEN at ELSE poller[s][d]
    BY PollerType
<1> QED
    BY <1>1 DEF OffersWereTaken

\* Every action keeps what is saved behind what is taken.
LEMMA OffersStep == ASSUME TypeOK, OffersWereTaken, Next PROVE OffersWereTaken'
<1> USE DEF work
<1>a. {"error", "idle", "offering", "stopped"} \subseteq PollerSteps \ {"offered"}
    BY DEF PollerSteps
<1>b. \A r \in Regs, c \in Chains : poller[r][c] # "off" => reg[r].at # "idle"
    BY DEF OffersWereTaken
<1>1. ASSUME SetUp \/ Initialize \/ SetUpFails \/ ServerStarts \/ StartFails \/ Stop
      PROVE  OffersWereTaken'
    BY <1>1, OffersFrame DEF SetUp, Initialize, SetUpFails, ServerStarts, StartFails, Stop
<1>2. ASSUME NEW a \in Addresses, DeRegisterAvs(a) PROVE OffersWereTaken'
    BY <1>2, OffersFrame DEF DeRegisterAvs
<1>3. ASSUME NEW c \in Chains, MineBlock(c) PROVE OffersWereTaken'
    BY <1>3, OffersFrame DEF MineBlock
<1>4. ASSUME NEW r \in Regs, NEW by, NEW a, NEW chains, registerAvs(r, by, a, chains)
      PROVE OffersWereTaken'
    <2>1. \A s \in Regs : s # r => reg'[s] = reg[s]
        BY <1>4 DEF TypeOK, registerAvs
    <2>2. reg[r].at = "idle" /\ reg'[r].at # "idle"
        BY <1>4 DEF TypeOK, registerAvs
    <2> QED
        BY <1>4, <2>1, <2>2, OffersFrame DEF registerAvs
<1>5. ASSUME NEW r \in Regs, RegisterConfigured(r) \/ RegisterAvs(r) PROVE OffersWereTaken'
    BY <1>4, <1>5 DEF RegisterConfigured, RegisterAvs
<1>6. ASSUME NEW r \in Regs, Register(r) PROVE OffersWereTaken'
    <2>1. PICK at \in {"started", "created", "stored", "done", "failed"} :
            reg' = [reg EXCEPT ![r].at = at]
        BY <1>6 DEF Register, PollersStarted, CreateManager, storeAvsManager, StartManager,
                    RegistrationFails
    <2>a. \A s \in Regs : reg'[s].addr = reg[s].addr
        BY <2>1, Moves
    <2>b. \A s \in Regs : s # r => reg'[s].at = reg[s].at
        BY <2>1 DEF TypeOK
    <2>c. reg'[r].at # "idle"
        BY <2>1, Moves
    <2>2. \A s \in Regs : reg'[s].at = "idle" => reg[s].at = "idle"
        BY <2>b, <2>c
    <2>3. UNCHANGED <<poller, last, stored, taken>>
        BY <1>6 DEF Register, PollersStarted, CreateManager, storeAvsManager, StartManager,
                    RegistrationFails
    <2> QED
        BY <2>a, <2>2, <2>3, OffersFrame
<1>7. ASSUME NEW r \in Regs, CancelDeregistered(r) \/ TaskEnds(r) \/ ManagerStops(r)
      PROVE  OffersWereTaken'
    BY <1>7, OffersFrame DEF CancelDeregistered, TaskEnds, ManagerStops
<1>8. ASSUME NEW r \in Regs, NEW c \in Chains, StartPoller(r, c) PROVE OffersWereTaken'
    <2> DEFINE a == reg[r].addr
               l == last[a][c]
               b == IF l # "none" THEN l ELSE IF c \in mined THEN "skipped" ELSE "before"
    <2>1. a \in Addresses
        BY RegFacts
    <2>2. b \in LastBlocks /\ (b = "past" => l = "past") /\ last \in [Addresses -> [Chains -> LastBlocks]]
        BY <2>1 DEF TypeOK, LastBlocks
    <2>3. last' = last \/ last' = [last EXCEPT ![a][c] = b]
        BY <1>8, <2>1 DEF StartPoller, TypeOK
    <2> HIDE DEF b, a
    <2>4. \A x \in Addresses, y \in Chains :
            [last EXCEPT ![a][c] = b][x][y] = IF x = a /\ y = c THEN b ELSE last[x][y]
        BY <2>1, <2>2, TableUpdate
    <2>5. \A x \in Addresses, y \in Chains : last'[x][y] = "past" => last[x][y] = "past"
        BY <2>2, <2>3, <2>4
    <2>6. PassedWasTaken'
        BY <1>8, <2>5 DEF StartPoller, OffersWereTaken, PassedWasTaken
    <2> QED
        BY <1>8, <1>a, <2>6, OffersPoller DEF StartPoller
<1>9. ASSUME NEW r \in Regs, NEW c \in Chains, Poll(r, c) PROVE OffersWereTaken'
    <2>1. CASE Task(r, c) \in stored
        <3>1. taken[AvsOf[reg[r].addr]][c] # {}
            BY <2>1, RegFacts DEF Task, OffersWereTaken
        <3>2. PassedWasTaken'
            BY <1>9, <2>1, <3>1, OffersPass DEF Poll
        <3> QED
            BY <1>9, <2>1, <3>2 DEF Poll, OffersWereTaken
    <2>2. CASE Task(r, c) \notin stored
        <3>1. PassedWasTaken'
            BY <1>9, <2>2 DEF Poll, OffersWereTaken, PassedWasTaken
        <3> QED
            BY <1>9, <1>a, <1>b, <2>2, <3>1, OffersPoller DEF Poll
    <2> QED
        BY <2>1, <2>2
<1>10. ASSUME NEW r \in Regs, NEW c \in Chains, NotTaken(r, c) \/ PollerStops(r, c)
       PROVE  OffersWereTaken'
    <2>1. PassedWasTaken'
        BY <1>10 DEF NotTaken, PollerStops, OffersWereTaken, PassedWasTaken
    <2> QED
        BY <1>10, <1>a, <1>b, <2>1, OffersPoller DEF NotTaken, PollerStops
<1>11. ASSUME NEW r \in Regs, NEW c \in Chains, SaveTask(r, c) PROVE OffersWereTaken'
    <2>1. taken[AvsOf[reg[r].addr]][c] # {}
        BY <1>11 DEF SaveTask, OffersWereTaken
    <2>2. PassedWasTaken'
        BY <1>11, <2>1, OffersPass DEF SaveTask
    <2>a. "idle" \in PollerSteps
        BY DEF PollerSteps
    <2>3. \A s \in Regs, d \in Chains : poller'[s][d] = IF s = r /\ d = c THEN "idle" ELSE poller[s][d]
        BY <1>11, <2>a, PollerType DEF SaveTask
    <2>4. \A v \in Avss, d \in Chains : <<v, d>> \in stored' => taken[v][d] # {}
        BY <1>11, <2>1 DEF SaveTask, Task, OffersWereTaken
    <2> QED
        BY <1>11, <1>b, <2>2, <2>3, <2>4 DEF SaveTask, OffersWereTaken
<1>12. ASSUME NEW r \in Regs, NEW c \in Chains, Take(r, c) PROVE OffersWereTaken'
    <2> DEFINE v == AvsOf[reg[r].addr]
    <2>1. v \in Avss
        BY RegFacts
    <2>2. taken[v][c] \cup {r} \in SUBSET Regs /\ taken \in [Avss -> [Chains -> SUBSET Regs]]
        BY <2>1 DEF TypeOK
    <2>3. taken' = [taken EXCEPT ![v][c] = taken[v][c] \cup {r}]
        BY <1>12, <2>1 DEF Take, TypeOK
    <2>a. v = AvsOf[reg[r].addr]
        OBVIOUS
    <2> HIDE DEF v
    <2>4. \A w \in Avss, d \in Chains :
            taken'[w][d] = IF w = v /\ d = c THEN taken[v][c] \cup {r} ELSE taken[w][d]
        BY <2>1, <2>2, <2>3, TableUpdate
    <2>5. \A w \in Avss, d \in Chains : taken[w][d] # {} => taken'[w][d] # {}
        BY <2>4
    <2>6. taken'[v][c] # {}
        BY <2>1, <2>4
    <2>7. "offered" \in PollerSteps
        BY DEF PollerSteps
    <2>8. \A s \in Regs, d \in Chains : poller'[s][d] = IF s = r /\ d = c THEN "offered" ELSE poller[s][d]
        BY <1>12, <2>7, PollerType DEF Take
    <2>9. \A s \in Regs : AvsOf[reg[s].addr] \in Avss
        BY RegFacts
    <2>10. \A a \in Addresses : AvsOf[a] \in Avss
        BY DEF Avss
    <2>11. reg' = reg /\ stored' = stored /\ last' = last /\ mined' = mined
        BY <1>12 DEF Take
    <2>12. poller[r][c] = "offering"
        BY <1>12 DEF Take
    <2>13. /\ \A s \in Regs : reg'[s].at = "idle" => \A d \in Chains : poller'[s][d] = "off"
           /\ \A w \in Avss, d \in Chains : <<w, d>> \in stored' => taken'[w][d] # {}
        BY <1>b, <2>5, <2>8, <2>11, <2>12 DEF OffersWereTaken
    <2>14. \A s \in Regs, d \in Chains : poller'[s][d] = "offered" => taken'[AvsOf[reg'[s].addr]][d] # {}
        BY <1>b, <2>a, <2>5, <2>6, <2>8, <2>9, <2>11 DEF OffersWereTaken
    <2>15. PassedWasTaken'
        BY <1>b, <2>5, <2>10, <2>11 DEF OffersWereTaken, PassedWasTaken
    <2> QED
        BY <2>13, <2>14, <2>15 DEF OffersWereTaken
<1> QED
    BY <1>1, <1>2, <1>3, <1>5, <1>6, <1>7, <1>8, <1>9, <1>10, <1>11, <1>12 DEF Next, PollerStep

-----------------------------------------------------------------------------
(* The invariant *)

\* The aggregator starts in the invariant: nothing is registered.
LEMMA InitIInv == Init => IInv
<1> SUFFICES ASSUME Init PROVE IInv
    OBVIOUS
<1> USE DEF Init
<1>1. Idle \in RegRecords
    BY RegistryConstants DEF Idle, RegRecords
<1>2. TypeOK
    <2>1. todo \in Seq(Entries)
        BY RegistryConstants
    <2> QED
        BY <1>1, <2>1 DEF TypeOK, PollerSteps, LastBlocks
<1>3. \A r \in Regs : reg[r].at = "idle"
    BY DEF Idle
<1>4. Booked
    BY <1>3 DEF Booked, MapIsBooked, DeregisteredAreCancelled, ContextsFollow, ConsumersFollow
<1>5. OffersWereTaken
    BY DEF OffersWereTaken, PassedWasTaken
<1> QED
    BY <1>2, <1>4, <1>5 DEF IInv

\* Every step of the aggregator, and every stutter, keeps the invariant.
LEMMA StepIInv == IInv /\ [Next]_vars => IInv'
<1> SUFFICES ASSUME IInv, [Next]_vars PROVE IInv'
    OBVIOUS
<1>1. CASE Next
    BY <1>1, TypeStep, BookedStep, OffersStep DEF IInv
<1>2. CASE UNCHANGED vars
    <2>1. TypeOK'
        BY <1>2 DEF vars, IInv, TypeOK
    <2> QED
        BY <1>2, <2>1, BookedFrame, OffersFrame DEF vars, IInv
<1> QED
    BY <1>1, <1>2

\* The invariant holds in every state the aggregator reaches.
THEOREM IInvInvariant == Spec => []IInv
BY InitIInv, StepIInv, PTL DEF Spec

\* An acknowledged registration has its manager in avsManagers, a live context and a
\* running goroutine until it is deregistered or the process ends, for any number of
\* registrations of an address that race between the check and storeAvsManager.
THEOREM AcknowledgedRunsTheorem == Spec => []AcknowledgedRuns
<1>1. IInv => AcknowledgedRuns
    <2> SUFFICES ASSUME IInv, NEW r \in Regs, reg[r].at = "done", r \notin deregistered,
                        phase \in {"starting", "serving"}
                 PROVE  managers[reg[r].addr] = r /\ r \in ctx /\ consumer[r] \in {"idle", "busy"}
        BY DEF IInv, AcknowledgedRuns
    <2>1. managers[reg[r].addr] = r
        BY DEF IInv, Booked, MapIsBooked
    <2>2. r \in ctx
        BY DEF IInv, Booked, ContextsFollow
    <2>3. consumer[r] \in {"idle", "busy"}
        BY <2>2 DEF IInv, TypeOK, Booked, ConsumersFollow
    <2> QED
        BY <2>1, <2>2, <2>3
<1> QED
    BY <1>1, IInvInvariant, PTL

\* The poller of a registration that lost the race, failed or was deregistered is never
\* left running: the deferred cancel of registerAvs and the one of deregisterAvs reach it.
THEOREM NoStrayPollerTheorem == Spec => []NoStrayPoller
<1>1. IInv => NoStrayPoller
    <2> SUFFICES ASSUME IInv, NEW r \in ctx
                 PROVE  managers[reg[r].addr] = r \/ r \in InProgress \cup cancelling
        BY DEF NoStrayPoller
    <2>1. r \in Regs
        BY DEF IInv, TypeOK
    <2>2. reg[r].at \in {"polling", "started", "created", "stored", "done"}
        <3>1. reg[r].at \notin {"idle", "failed"}
            BY DEF IInv, Booked, ContextsFollow
        <3>2. reg[r] \in RegRecords
            BY <2>1 DEF IInv, TypeOK
        <3> QED
            BY <3>1, <3>2 DEF RegRecords
    <2>3. CASE reg[r].at # "done"
        BY <2>1, <2>2, <2>3 DEF InProgress
    <2>4. CASE reg[r].at = "done"
        BY <2>1, <2>4 DEF IInv, Booked, MapIsBooked, DeregisteredAreCancelled
    <2> QED
        BY <2>3, <2>4
<1> QED
    BY <1>1, IInvInvariant, PTL

\* The last processed block of an address never passes a task that no execution manager
\* took, whichever registrations of the address, or of another spelling of it, share the
\* store.
THEOREM PassedWasTakenTheorem == Spec => []PassedWasTaken
<1>1. IInv => PassedWasTaken
    BY DEF IInv, OffersWereTaken
<1> QED
    BY <1>1, IInvInvariant, PTL
-----------------------------------------------------------------------------
(* The configuration of hgctl, with which an operator is set up and serves *)
(* the AVSs: HgctlConfig, for any terminals, names, keystores, earlier     *)
(* files, commands and faults.                                             *)

(* A configuration without a dangling name, signer or key; a key is never  *)
(* missing, the others are there unless the text was cut.                  *)
Sound(c, keys, lost) ==
    (c.cut \/ (CurrentIn(c) /\ SignersIn(c))) /\ KeysIn(c, keys, lost)

SoundContext(cx, cut, keys, lost) ==
    /\ cut \/ (Found(cx, cx.op) /\ Found(cx, cx.sys.ecdsa) /\ Found(cx, cx.sys.bn254))
    /\ \A k \in cx.keystores : k.path \in Paths \ lost => keys[k.path] \in Types

(* The values of a command's own state. *)
SignerKinds == {"env", "keystore", "web3signer"}
Wizards ==
    [type : {"", "operator", "system"}, list : {"", "signers", "keyTypes", "keystores", "tls"},
     stage : {"", "keyType", "signerType", "keystore", "text", "confirm"},
     offers : SUBSET SignerKinds, keys : SUBSET Keys, keyType : Types \cup {""},
     signer : SignerKinds \cup {""}, key : Keys]
Stages == {"idle", "save", "saving", "saveOperator", "savingOperator", "create", "copy", "password",
           "openKey", "writeKey", "signer", "wizardCheck", "wizard", "wizardSave", "wizardReload"}
Copies == UNION {ConfigsOf(D) : D \in SUBSET Names}
Files == UNION {FilesOf(D) : D \in SUBSET Names}
Processes == [at : Stages, cfg : Copies, name : Names \cup {""}, use : BOOLEAN,
              key : Keys, wizard : Wizards]

HgctlTypes ==
    /\ file \in Files /\ keyFile \in KeyFiles
    /\ proc \in [Procs -> Processes]

(* Every copy is sound, not only the file: a command writes back what it   *)
(* read minutes before.                                                    *)
CopiesAreSound ==
    /\ Sound(file.cfg, keyFile, raced)
    /\ \A p \in Procs : Sound(proc[p].cfg, keyFile, raced)

(* A command that adds or copies a context has its name; one that creates  *)
(* a keystore has it under the current context of its copy.                *)
NamesSet(q) ==
    /\ q.at \in {"create", "copy"} => q.name \in Names
    /\ q.at = "copy" => Has(q.cfg, q.name)
    /\ q.at \in {"password", "openKey", "writeKey"} =>
          Has(q.cfg, q.cfg.current) /\ q.key.path \in Paths /\ q.key.type \in Types
NamesAreSet == \A p \in Procs : NamesSet(proc[p])

(* Between os.Stat and the end of the write the key file is not there or   *)
(* partial, and nobody else is at it, unless there was a race.             *)
Writing(p) == proc[p].at \in {"openKey", "writeKey"}
KeyWritersAreAlone ==
    /\ \A p \in Procs : proc[p].key.path \notin raced =>
          /\ proc[p].at = "openKey" => keyFile[proc[p].key.path] = "none"
          /\ proc[p].at = "writeKey" => keyFile[proc[p].key.path] = "partial"
    /\ \A p, r \in Procs :
          /\ p # r /\ Writing(p) /\ Writing(r)
          /\ proc[p].key.path = proc[r].key.path
          => proc[p].key.path \in raced

HgctlInv == HgctlTypes /\ CopiesAreSound /\ NamesAreSet /\ KeyWritersAreAlone

(* What the constants must be: the second part says that the files earlier *)
(* commands left are sound.                                                *)

(* Configurations *)

LEMMA ConfigFacts ==
    ASSUME NEW c \in Copies
    PROVE  /\ c.current \in Names \cup {""} /\ c.nil \in BOOLEAN /\ c.telemetry \in BOOLEAN /\ c.cut \in BOOLEAN
           /\ DOMAIN c.contexts \subseteq Names
           /\ \A n \in DOMAIN c.contexts : c.contexts[n] \in Contexts
           /\ c.contexts \in [DOMAIN c.contexts -> Contexts]
           /\ c \in ConfigsOf(DOMAIN c.contexts)
<1>1. PICK D \in SUBSET Names : c \in ConfigsOf(D)
  BY DEF Copies
<1>2. c.contexts \in [D -> Contexts]
  BY <1>1 DEF ConfigsOf
<1>3. DOMAIN c.contexts = D
  BY <1>2
<1> QED
  BY <1>1, <1>2, <1>3 DEF ConfigsOf

LEMMA ConfigMade ==
    ASSUME NEW D \in SUBSET Names, NEW c \in ConfigsOf(D)
    PROVE  c \in Copies /\ DOMAIN c.contexts = D
  BY DEF Copies, ConfigsOf

LEMMA SoundFacts ==
    ASSUME NEW c, NEW keys, NEW lost, Sound(c, keys, lost), NEW n \in DOMAIN c.contexts
    PROVE  SoundContext(c.contexts[n], c.cut, keys, lost)
  BY DEF Sound, SoundContext, SignersIn, KeysIn

LEMMA SoundMade ==
    ASSUME NEW c, NEW keys, NEW lost, c.cut \/ CurrentIn(c),
           \A n \in DOMAIN c.contexts : SoundContext(c.contexts[n], c.cut, keys, lost)
    PROVE  Sound(c, keys, lost)
  BY DEF Sound, SoundContext, SignersIn, KeysIn

(* A context may be put into a sound configuration, in the place of        *)
(* another or not.                                                         *)
LEMMA WithContextSound ==
    ASSUME NEW c \in Copies, NEW keys, NEW lost, Sound(c, keys, lost), NEW n \in Names,
           NEW cx \in Contexts, SoundContext(cx, c.cut, keys, lost)
    PROVE  /\ WithContext(c, n, cx) \in Copies
           /\ Sound(WithContext(c, n, cx), keys, lost)
           /\ Has(WithContext(c, n, cx), n)
<1> DEFINE d == WithContext(c, n, cx)
           f == [m \in DOMAIN c.contexts \cup {n} |-> IF m = n THEN cx ELSE c.contexts[m]]
<1>1. /\ c \in ConfigsOf(DOMAIN c.contexts) /\ DOMAIN c.contexts \subseteq Names
      /\ \A m \in DOMAIN c.contexts : c.contexts[m] \in Contexts
  BY ConfigFacts
<1>2. f \in [DOMAIN c.contexts \cup {n} -> Contexts]
  BY <1>1
<1>3. d = [c EXCEPT !.contexts = f]
  BY DEF WithContext
<1> HIDE DEF f, d
<1>4. d \in ConfigsOf(DOMAIN c.contexts \cup {n}) /\ d.current = c.current /\ d.cut = c.cut /\ d.contexts = f
  BY <1>1, <1>2, <1>3 DEF ConfigsOf
<1>5. d \in Copies /\ DOMAIN d.contexts = DOMAIN c.contexts \cup {n}
  BY <1>1, <1>4, ConfigMade
<1>6. d.cut \/ CurrentIn(d)
  BY <1>4, <1>5 DEF Sound, CurrentIn, Has
<1>7. \A m \in DOMAIN d.contexts : SoundContext(d.contexts[m], d.cut, keys, lost)
  BY <1>4, <1>5, SoundFacts DEF f
<1> QED
  BY <1>5, <1>6, <1>7, SoundMade DEF d, Has

(* The current context may be another that is there. *)
LEMMA CurrentSound ==
    ASSUME NEW c \in Copies, NEW keys, NEW lost, Sound(c, keys, lost), NEW n \in Names,
           Has(c, n)
    PROVE  [c EXCEPT !.current = n] \in Copies /\ Sound([c EXCEPT !.current = n], keys, lost)
<1> DEFINE d == [c EXCEPT !.current = n]
<1>1. c \in ConfigsOf(DOMAIN c.contexts) /\ DOMAIN c.contexts \subseteq Names
  BY ConfigFacts
<1>2. d \in ConfigsOf(DOMAIN c.contexts) /\ d.current = n /\ d.cut = c.cut /\ d.contexts = c.contexts
  BY <1>1 DEF ConfigsOf
<1> HIDE DEF d
<1>3. d \in Copies
  BY <1>1, <1>2, ConfigMade
<1>4. Sound(d, keys, lost)
  BY <1>2, SoundFacts, SoundMade DEF CurrentIn, Has
<1> QED
  BY <1>3, <1>4 DEF d

(* Neither flag is anything to the rest. *)
LEMMA FlagsSound ==
    ASSUME NEW c \in Copies, NEW keys, NEW lost, Sound(c, keys, lost), NEW b \in BOOLEAN
    PROVE  /\ [c EXCEPT !.telemetry = b] \in Copies /\ Sound([c EXCEPT !.telemetry = b], keys, lost)
           /\ [c EXCEPT !.nil = b] \in Copies /\ Sound([c EXCEPT !.nil = b], keys, lost)
<1> DEFINE d == [c EXCEPT !.telemetry = b]
           e == [c EXCEPT !.nil = b]
<1>1. c \in ConfigsOf(DOMAIN c.contexts) /\ DOMAIN c.contexts \subseteq Names
  BY ConfigFacts
<1>2. /\ d \in ConfigsOf(DOMAIN c.contexts) /\ d.current = c.current /\ d.cut = c.cut /\ d.contexts = c.contexts
      /\ e \in ConfigsOf(DOMAIN c.contexts) /\ e.current = c.current /\ e.cut = c.cut /\ e.contexts = c.contexts
  BY <1>1 DEF ConfigsOf
<1> HIDE DEF d, e
<1>3. d \in Copies /\ e \in Copies
  BY <1>1, <1>2, ConfigMade
<1>4. (d.cut \/ CurrentIn(d)) /\ (e.cut \/ CurrentIn(e))
  BY <1>2 DEF Sound, CurrentIn, Has
<1>5. Sound(d, keys, lost) /\ Sound(e, keys, lost)
  BY <1>2, <1>4, SoundFacts, SoundMade
<1> QED
  BY <1>3, <1>5 DEF d, e

(* Any context may go but the current one. *)
LEMMA DeleteSound ==
    ASSUME NEW c \in Copies, NEW keys, NEW lost, Sound(c, keys, lost), NEW n,
           validateNotCurrentContext(c, n)
    PROVE  LET d == [c EXCEPT !.contexts = [m \in DOMAIN c.contexts \ {n} |-> c.contexts[m]]]
           IN  d \in Copies /\ Sound(d, keys, lost)
<1> DEFINE f == [m \in DOMAIN c.contexts \ {n} |-> c.contexts[m]]
           d == [c EXCEPT !.contexts = f]
<1>1. /\ c \in ConfigsOf(DOMAIN c.contexts) /\ DOMAIN c.contexts \subseteq Names
      /\ \A m \in DOMAIN c.contexts : c.contexts[m] \in Contexts
  BY ConfigFacts
<1>2. f \in [DOMAIN c.contexts \ {n} -> Contexts]
  BY <1>1
<1> HIDE DEF f
<1>3. d \in ConfigsOf(DOMAIN c.contexts \ {n}) /\ d.current = c.current /\ d.cut = c.cut /\ d.contexts = f
  BY <1>1, <1>2 DEF ConfigsOf
<1> HIDE DEF d
<1>4. d \in Copies /\ DOMAIN d.contexts = DOMAIN c.contexts \ {n}
  BY <1>1, <1>3, ConfigMade
<1>5. d.cut \/ CurrentIn(d)
  BY <1>3, <1>4 DEF Sound, CurrentIn, Has, validateNotCurrentContext
<1>6. \A m \in DOMAIN d.contexts : SoundContext(d.contexts[m], d.cut, keys, lost)
  BY <1>3, <1>4, SoundFacts DEF f
<1> QED
  BY <1>4, <1>5, <1>6, SoundMade DEF d, f

LEMMA FixedConfigs ==
    ASSUME NEW keys, NEW lost, NEW cut
    PROVE  /\ NewContext \in Contexts /\ SoundContext(NewContext, cut, keys, lost)
           /\ defaultConfig \in Copies /\ Sound(defaultConfig, keys, lost)
           /\ EmptyConfig \in Copies /\ Sound(EmptyConfig, keys, lost)
           /\ Config("", [m \in {} |-> NewContext]) \in Copies
           /\ Sound(Config("", [m \in {} |-> NewContext]), keys, lost)
<1>1. Unset \in Signers /\ NoKey \in Keys
  BY DEF Unset, Signers, NoKey, Keys
<1>2. NewContext \in Contexts
  BY <1>1 DEF NewContext, Contexts, NoSystem
<1>3. \A b : SoundContext(NewContext, b, keys, lost)
  BY DEF SoundContext, NewContext, NoSystem, Unset, Found
<1>4. defaultConfig \in ConfigsOf({"default"}) /\ "default" \in Names
  BY <1>2, HgctlConstants DEF defaultConfig, Config, Single, ConfigsOf
<1>5. /\ defaultConfig.current = "default"
      /\ defaultConfig.contexts = [m \in {"default"} |-> NewContext]
  BY DEF defaultConfig, Config, Single
<1>6. defaultConfig \in Copies /\ Sound(defaultConfig, keys, lost)
  <2>1. CurrentIn(defaultConfig)
    BY <1>5 DEF CurrentIn, Has
  <2> QED
    BY <1>3, <1>4, <1>5, <2>1, ConfigMade, SoundMade
<1> DEFINE f == [m \in {} |-> NewContext]
           d == Config("", f)
<1>7. d \in ConfigsOf({}) /\ d.current = "" /\ DOMAIN d.contexts = {}
  BY <1>2 DEF Config, ConfigsOf
<1> HIDE DEF d
<1>8. d \in Copies /\ Sound(d, keys, lost)
  BY <1>7, ConfigMade, SoundMade DEF CurrentIn
<1>9. EmptyConfig = [d EXCEPT !.nil = TRUE]
  BY DEF EmptyConfig, d
<1>10. EmptyConfig \in Copies /\ Sound(EmptyConfig, keys, lost)
  BY <1>8, <1>9, FlagsSound
<1> QED
  BY <1>2, <1>3, <1>6, <1>8, <1>10 DEF d

(* Steps of one command *)

LEMMA Loaded ==
    ASSUME HgctlInv
    PROVE  /\ LoadConfig \in Copies /\ Sound(LoadConfig, keyFile, raced)
           /\ loadOrCreateConfig \in Copies /\ Sound(loadOrCreateConfig, keyFile, raced)
           /\ file.cfg \in Copies
<1>1. file.cfg \in Copies
  BY DEF HgctlInv, HgctlTypes, Files, FilesOf, Copies
<1>2. Sound(file.cfg, keyFile, raced)
  BY DEF HgctlInv, CopiesAreSound
<1> QED
  BY <1>1, <1>2, FixedConfigs DEF LoadConfig, loadOrCreateConfig

LEMMA KeylessSigners ==
    ASSUME NEW cx
    PROVE  /\ FromEnv \in Signers /\ Found(cx, FromEnv)
           /\ Remote \in Signers /\ Found(cx, Remote)
           /\ Unset \in Signers /\ Found(cx, Unset)
  BY DEF FromEnv, Remote, Unset, Signers, Found, NoKey, Keys

(* What a text loads as that is not what one command wrote: no listed key  *)
(* is missing, for its keystores are those of a written one, or name no    *)
(* file.                                                                   *)
LEMMA CutMade ==
    ASSUME NEW D \in SUBSET Names, NEW d \in ConfigsOf(D), d.cut, NEW keys, NEW lost,
           \A m \in D : SoundContext(d.contexts[m], TRUE, keys, lost)
    PROVE  d \in Copies /\ Sound(d, keys, lost)
<1>1. d \in Copies /\ DOMAIN d.contexts = D
  BY ConfigMade
<1>2. d.cut = TRUE
  BY DEF ConfigsOf
<1> QED
  BY <1>1, <1>2, SoundMade

LEMMA ContextsOf ==
    ASSUME NEW c \in Copies, NEW keys, NEW lost, Sound(c, keys, lost), NEW m \in DOMAIN c.contexts
    PROVE  c.contexts[m] \in Contexts /\ SoundContext(c.contexts[m], TRUE, keys, lost)
  BY ConfigFacts, SoundFacts DEF SoundContext

LEMMA ContinuedSound ==
    ASSUME NEW cx \in Contexts, NEW other \in Contexts, NEW keys, NEW lost,
           SoundContext(cx, TRUE, keys, lost), SoundContext(other, TRUE, keys, lost),
           NEW x \in Continued(cx, other)
    PROVE  x \in Contexts /\ SoundContext(x, TRUE, keys, lost)
<1>1. PICK K \in {{}, other.keystores}, sys \in {NoSystem, other.sys}, op \in {Unset, other.op} :
         x = [cx EXCEPT !.keystores = @ \cup K, !.sys = IF @.set THEN @ ELSE sys,
                        !.op = IF @ = Unset THEN op ELSE @,
                        !.experimental = @ \/ other.experimental]
  BY DEF Continued
<1>2. /\ Unset \in Signers /\ NoSystem \in [set : BOOLEAN, ecdsa : Signers, bn254 : Signers]
  BY FixedConfigs DEF NewContext, Contexts
<1>3. /\ K \in SUBSET Keys /\ op \in Signers /\ sys \in [set : BOOLEAN, ecdsa : Signers, bn254 : Signers]
      /\ other.experimental \in BOOLEAN
  BY <1>1, <1>2 DEF Contexts
<1> DEFINE op2 == IF cx.op = Unset THEN op ELSE cx.op
           sys2 == IF cx.sys.set THEN cx.sys ELSE sys
           exp2 == cx.experimental \/ other.experimental
<1>4. /\ op2 \in Signers /\ sys2 \in [set : BOOLEAN, ecdsa : Signers, bn254 : Signers]
      /\ exp2 \in BOOLEAN
  BY <1>3 DEF Contexts
<1>5. x = [cx EXCEPT !.keystores = cx.keystores \cup K, !.sys = sys2, !.op = op2,
                     !.experimental = exp2]
  BY <1>1 DEF Contexts
<1> HIDE DEF op2, sys2, exp2
<1>6. x \in Contexts /\ x.keystores = cx.keystores \cup K
  BY <1>3, <1>4, <1>5 DEF Contexts
<1> QED
  BY <1>1, <1>6 DEF SoundContext

LEMMA MixedSound ==
    ASSUME NEW c \in Copies, NEW other \in Copies, NEW keys, NEW lost,
           Sound(c, keys, lost), Sound(other, keys, lost), LeavesMixed(c, other)
    PROVE  \/ file' = Corrupt(c)
           \/ \E d \in Copies : file' = Complete(d) /\ Sound(d, keys, lost)
<1>1. /\ c \in ConfigsOf(DOMAIN c.contexts) /\ DOMAIN c.contexts \in SUBSET Names
      /\ DOMAIN other.contexts \subseteq Names
      /\ c.telemetry \in BOOLEAN /\ other.telemetry \in BOOLEAN
      /\ c.contexts \in [DOMAIN c.contexts -> Contexts]
  BY ConfigFacts
<1> DEFINE tel == c.telemetry \/ other.telemetry
           mixed == [c EXCEPT !.telemetry = @ \/ other.telemetry, !.cut = TRUE]
<1>m. mixed \in ConfigsOf(DOMAIN c.contexts) /\ mixed.cut /\ mixed.contexts = c.contexts
  <2>1. mixed = [c EXCEPT !.telemetry = tel, !.cut = TRUE] /\ tel \in BOOLEAN
    BY <1>1 DEF ConfigsOf
  <2> HIDE DEF tel, mixed
  <2> QED
    BY <1>1, <2>1 DEF ConfigsOf
<1> HIDE DEF tel, mixed
<1>2. mixed \in Copies /\ Sound(mixed, keys, lost)
  BY <1>1, <1>m, ContextsOf, CutMade
<1>3. ASSUME NEW end \in DOMAIN c.contexts, NEW n \in DOMAIN other.contexts,
             NEW cx \in Continued(c.contexts[end], other.contexts[n]),
             NEW more \in SUBSET (DOMAIN other.contexts \ DOMAIN c.contexts), NEW d,
             d = [mixed EXCEPT !.contexts =
                     [m \in DOMAIN c.contexts \cup more |->
                         IF m \notin DOMAIN c.contexts THEN other.contexts[m]
                         ELSE IF m = end THEN cx ELSE c.contexts[m]]]
      PROVE  d \in Copies /\ Sound(d, keys, lost)
  <2> DEFINE D == DOMAIN c.contexts \cup more
             f == [m \in D |-> IF m \notin DOMAIN c.contexts THEN other.contexts[m]
                               ELSE IF m = end THEN cx ELSE c.contexts[m]]
  <2>1. D \in SUBSET Names
    BY <1>1
  <2>2. cx \in Contexts /\ SoundContext(cx, TRUE, keys, lost)
    BY ContextsOf, ContinuedSound
  <2>3. \A m \in D : f[m] \in Contexts /\ SoundContext(f[m], TRUE, keys, lost)
    BY <2>2, ContextsOf
  <2>4. f \in [D -> Contexts]
    BY <2>3
  <2>5. d = [mixed EXCEPT !.contexts = f]
    BY <1>3
  <2> HIDE DEF f, D
  <2>6. d \in ConfigsOf(D) /\ d.cut /\ d.contexts = f
    BY <1>m, <2>4, <2>5 DEF ConfigsOf
  <2> QED
    BY <2>1, <2>3, <2>6, CutMade
<1>4. \/ file' \in {Corrupt(c), Complete(mixed)}
      \/ \E end \in DOMAIN c.contexts, n \in DOMAIN other.contexts :
         \E more \in SUBSET (DOMAIN other.contexts \ DOMAIN c.contexts),
            cx \in Continued(c.contexts[end], other.contexts[n]) :
            file' = Complete([mixed EXCEPT !.contexts =
                        [m \in DOMAIN c.contexts \cup more |->
                            IF m \notin DOMAIN c.contexts THEN other.contexts[m]
                            ELSE IF m = end THEN cx ELSE c.contexts[m]]])
  BY DEF LeavesMixed, mixed
<1> QED
  BY <1>2, <1>3, <1>4

LEMMA CutKeyFacts ==
    ASSUME NEW k \in Keys, NEW x \in CutKeys(k)
    PROVE  x \in Keys /\ (x.path \in Paths => x.path = k.path)
<1>1. <<"", "">> \notin Paths
  <2>1. ASSUME NEW a, NEW b, <<a, b>> \in Paths PROVE a \in Names
    BY <2>1 DEF Paths
  <2> QED
    BY <2>1, HgctlConstants
<1>2. CASE x = NoKey
  BY <1>1, <1>2 DEF NoKey, Keys
<1>3. CASE x = [NoKey EXCEPT !.name = k.name]
  BY <1>1, <1>3 DEF NoKey, Keys
<1>4. CASE x = [k EXCEPT !.type = ""]
  BY <1>4 DEF Keys
<1> QED
  BY <1>2, <1>3, <1>4 DEF CutKeys

LEMMA CutListFacts ==
    ASSUME NEW keys \in SUBSET Keys, NEW K \in CutLists(keys)
    PROVE  /\ K \in SUBSET Keys
           /\ \A z \in K : z.path \in Paths => \E k \in keys : z.path = k.path
<1>1. CASE K \in SUBSET keys
  BY <1>1
<1>2. ASSUME NEW k \in keys, NEW L \in SUBSET (keys \ {k}), NEW x \in CutKeys(k), K = L \cup {x}
      PROVE  /\ K \in SUBSET Keys
             /\ \A z \in K : z.path \in Paths => \E y \in keys : z.path = y.path
  BY <1>2, CutKeyFacts
<1>3. ASSUME NEW k \in keys, K \in CutAt(keys, k)
      PROVE  /\ K \in SUBSET Keys
             /\ \A z \in K : z.path \in Paths => \E y \in keys : z.path = y.path
  <2>1. PICK L \in SUBSET (keys \ {k}), x \in CutKeys(k) : K = L \cup {x}
    BY <1>3 DEF CutAt
  <2> QED
    BY <1>2, <2>1
<1>4. \/ K \in SUBSET keys
      \/ \E k \in keys : K \in CutAt(keys, k)
  BY DEF CutLists
<1> QED
  BY <1>1, <1>3, <1>4

LEMMA CutSignerFacts ==
    ASSUME NEW s \in Signers, NEW x \in CutSigners(s)
    PROVE  x \in Signers
<1>1. CASE x = Unset
  BY <1>1, KeylessSigners
<1>2. ASSUME NEW k \in CutKeys(s.key), x = InKeystore(k) PROVE x \in Signers
  BY <1>2, CutKeyFacts DEF Signers, InKeystore
<1> QED
  BY <1>1, <1>2 DEF CutSigners

LEMMA CutContextSound ==
    ASSUME NEW cx \in Contexts, NEW keys, NEW lost, SoundContext(cx, TRUE, keys, lost),
           NEW x \in CutContexts(cx)
    PROVE  x \in Contexts /\ SoundContext(x, TRUE, keys, lost)
<1>0. /\ NewContext \in Contexts /\ Unset \in Signers /\ cx.props \in BOOLEAN
      /\ cx.keystores \in SUBSET Keys /\ cx.op \in Signers
      /\ cx.sys \in [set : BOOLEAN, ecdsa : Signers, bn254 : Signers]
      /\ \A k \in cx.keystores : k.path \in Paths \ lost => keys[k.path] \in Types
  BY FixedConfigs, KeylessSigners DEF Contexts, SoundContext
\* A beginning of the list of keystores, ...
<1>1. ASSUME NEW props \in BOOLEAN, NEW K \in SUBSET Keys,
             \A k \in K : k.path \in Paths \ lost => keys[k.path] \in Types,
             x = [NewContext EXCEPT !.props = props, !.keystores = K]
      PROVE  x \in Contexts /\ SoundContext(x, TRUE, keys, lost)
  <2>1. x \in Contexts /\ x.keystores = K
    BY <1>0, <1>1 DEF Contexts
  <2> QED
    BY <1>1, <2>1 DEF SoundContext
\* ... or all of it.
<1>2. ASSUME NEW sys \in [set : BOOLEAN, ecdsa : Signers, bn254 : Signers], NEW op \in Signers,
             x = [cx EXCEPT !.sys = sys, !.op = op, !.experimental = FALSE]
      PROVE  x \in Contexts /\ SoundContext(x, TRUE, keys, lost)
  <2>1. x \in Contexts /\ x.keystores = cx.keystores
    BY <1>2 DEF Contexts
  <2> QED
    BY <1>0, <2>1 DEF SoundContext
<1>3. CASE x = NewContext
  BY <1>3, FixedConfigs
<1>4. ASSUME NEW K \in CutLists(cx.keystores), x = [NewContext EXCEPT !.props = cx.props, !.keystores = K]
      PROVE  x \in Contexts /\ SoundContext(x, TRUE, keys, lost)
  <2>1. K \in SUBSET Keys /\ \A z \in K : z.path \in Paths => \E k \in cx.keystores : z.path = k.path
    BY <1>0, CutListFacts
  <2>2. \A z \in K : z.path \in Paths \ lost => keys[z.path] \in Types
    BY <1>0, <2>1
  <2> QED
    BY <1>0, <1>1, <1>4, <2>1, <2>2
<1>5. ASSUME NEW s \in CutSigners(cx.sys.bn254),
             x = [cx EXCEPT !.sys = [set |-> TRUE, ecdsa |-> Unset, bn254 |-> s], !.op = Unset,
                            !.experimental = FALSE]
      PROVE  x \in Contexts /\ SoundContext(x, TRUE, keys, lost)
  <2>1. s \in Signers
    BY <1>0, CutSignerFacts
  <2>2. [set |-> TRUE, ecdsa |-> Unset, bn254 |-> s] \in [set : BOOLEAN, ecdsa : Signers, bn254 : Signers]
    BY <1>0, <2>1
  <2> QED
    BY <1>0, <1>2, <1>5, <2>2
<1>6. ASSUME NEW s \in CutSigners(cx.sys.ecdsa),
             x = [cx EXCEPT !.sys.ecdsa = s, !.op = Unset, !.experimental = FALSE]
      PROVE  x \in Contexts /\ SoundContext(x, TRUE, keys, lost)
  <2> DEFINE sys == [cx.sys EXCEPT !.ecdsa = s]
  <2>1. s \in Signers
    BY <1>0, CutSignerFacts
  <2>2. sys \in [set : BOOLEAN, ecdsa : Signers, bn254 : Signers]
    BY <1>0, <2>1
  <2>3. x = [cx EXCEPT !.sys = sys, !.op = Unset, !.experimental = FALSE]
    BY <1>6
  <2> HIDE DEF sys
  <2> QED
    BY <1>0, <1>2, <2>2, <2>3
<1>7. ASSUME NEW s \in CutSigners(cx.op) \cup {cx.op}, x = [cx EXCEPT !.op = s, !.experimental = FALSE]
      PROVE  x \in Contexts /\ SoundContext(x, TRUE, keys, lost)
  <2>1. s \in Signers
    BY <1>0, CutSignerFacts
  <2>2. x \in Contexts /\ x.keystores = cx.keystores
    BY <1>7, <2>1 DEF Contexts
  <2> QED
    BY <1>0, <2>2 DEF SoundContext
<1> QED
  BY <1>3, <1>4, <1>5, <1>6, <1>7 DEF CutContexts

LEMMA CutConfigSound ==
    ASSUME NEW c \in Copies, NEW keys, NEW lost, Sound(c, keys, lost), LeavesCut(c)
    PROVE  \/ file' = Corrupt(c)
           \/ \E d \in Copies : file' = Complete(d) /\ Sound(d, keys, lost)
<1>1. c \in ConfigsOf(DOMAIN c.contexts) /\ DOMAIN c.contexts \subseteq Names
  BY ConfigFacts
<1>2. ASSUME NEW n \in Names \cup {""}, NEW d, d = [EmptyConfig EXCEPT !.current = n, !.cut = TRUE]
      PROVE  d \in Copies /\ Sound(d, keys, lost)
  <2>1. EmptyConfig \in Copies /\ DOMAIN EmptyConfig.contexts = {}
    BY FixedConfigs DEF EmptyConfig, Config
  <2>2. EmptyConfig \in ConfigsOf({})
    BY <2>1, ConfigFacts
  <2>3. d \in ConfigsOf({}) /\ d.cut
    BY <1>2, <2>2 DEF ConfigsOf
  <2> QED
    BY <2>3, CutMade, {} \in SUBSET Names
<1>3. ASSUME NEW S \in SUBSET DOMAIN c.contexts, NEW end \in S,
             NEW cx \in CutContexts(c.contexts[end]), NEW d,
             d = [c EXCEPT !.telemetry = FALSE, !.cut = TRUE,
                     !.contexts = [m \in S |-> IF m = end THEN cx ELSE c.contexts[m]]]
      PROVE  d \in Copies /\ Sound(d, keys, lost)
  <2> DEFINE f == [m \in S |-> IF m = end THEN cx ELSE c.contexts[m]]
  <2>1. cx \in Contexts /\ SoundContext(cx, TRUE, keys, lost)
    BY ContextsOf, CutContextSound
  <2>2. \A m \in S : f[m] \in Contexts /\ SoundContext(f[m], TRUE, keys, lost)
    BY <2>1, ContextsOf
  <2>3. f \in [S -> Contexts] /\ S \in SUBSET Names
    BY <1>1, <2>2
  <2>4. d = [c EXCEPT !.telemetry = FALSE, !.cut = TRUE, !.contexts = f]
    BY <1>3
  <2> HIDE DEF f
  <2>5. d \in ConfigsOf(S) /\ d.cut /\ d.contexts = f
    BY <1>1, <2>3, <2>4 DEF ConfigsOf
  <2> QED
    BY <2>2, <2>3, <2>5, CutMade
<1> QED
  BY <1>2, <1>3 DEF LeavesCut

LEMMA IdleProcess ==
    ASSUME NEW keys, NEW lost
    PROVE  AtPrompt \in Processes /\ Sound(AtPrompt.cfg, keys, lost) /\ AtPrompt.at = "idle"
<1>1. NoKey \in Keys
  BY DEF NoKey, Keys
<1>2. NoWizard \in Wizards
  BY <1>1 DEF NoWizard, Wizards, SignerKinds, Types
<1>3. EmptyConfig \in Copies /\ Sound(EmptyConfig, keys, lost)
  BY FixedConfigs
<1> QED
  BY <1>1, <1>2, <1>3 DEF AtPrompt, Processes, Stages

(* A command that changes its own state, or the file as well, keeps the    *)
(* invariant when what it holds and what it writes are sound.              *)
LEMMA CommandKeeps ==
    ASSUME HgctlInv, NEW p \in Procs, NEW q \in Processes, proc' = [proc EXCEPT ![p] = q],
           Sound(q.cfg, keyFile, raced), NamesSet(q), q.at \notin {"openKey", "writeKey"},
           UNCHANGED <<keyFile, raced>>,
           file' \in Files, Sound(file'.cfg, keyFile, raced)
    PROVE  HgctlInv'
<1>1. HgctlTypes /\ CopiesAreSound /\ NamesAreSet /\ KeyWritersAreAlone
  BY DEF HgctlInv
<1>2. proc \in [Procs -> Processes]
  BY <1>1 DEF HgctlTypes
<1>3. \A r \in Procs : proc'[r] = IF r = p THEN q ELSE proc[r]
  BY <1>2
<1>4. HgctlTypes'
  BY <1>1, <1>2 DEF HgctlTypes, KeyFiles, Paths, Types
<1>5. CopiesAreSound'
  BY <1>1, <1>3 DEF CopiesAreSound
<1>6. NamesAreSet'
  BY <1>1, <1>3 DEF NamesAreSet
<1>7. KeyWritersAreAlone'
  BY <1>1, <1>3 DEF KeyWritersAreAlone, Writing
<1> QED
  BY <1>4, <1>5, <1>6, <1>7 DEF HgctlInv

(* Most commands leave the file alone, ... *)
LEMMA CommandMoves ==
    ASSUME HgctlInv, NEW p \in Procs, NEW q \in Processes, proc' = [proc EXCEPT ![p] = q],
           Sound(q.cfg, keyFile, raced), NamesSet(q), q.at \notin {"openKey", "writeKey"},
           UNCHANGED <<file, keyFile, raced>>
    PROVE  HgctlInv'
  BY CommandKeeps DEF HgctlInv, HgctlTypes, CopiesAreSound

(* ... and end by saving a sound configuration. *)
LEMMA SavingKeeps ==
    ASSUME HgctlInv, NEW p \in Procs, NEW c \in Copies,
           Sound(c, keyFile, raced), Saving(p, c), UNCHANGED <<file, keyFile, raced>>
    PROVE  HgctlInv'
<1> DEFINE q == [AtPrompt EXCEPT !.at = "save", !.cfg = c]
<1>1. q \in Processes /\ q.at = "save" /\ q.cfg = c
  BY IdleProcess DEF Processes, Stages
<1>2. proc' = [proc EXCEPT ![p] = q]
  BY DEF Saving
<1> HIDE DEF q
<1>3. NamesSet(q)
  BY <1>1 DEF NamesSet
<1> QED
  BY <1>1, <1>2, <1>3, CommandMoves

LEMMA CurrentContext ==
    ASSUME HgctlInv, HasCurrent
    PROVE  /\ LoadConfig.current \in Names
           /\ Current \in Contexts /\ SoundContext(Current, LoadConfig.cut, keyFile, raced)
  BY Loaded, ConfigFacts, SoundFacts DEF HasCurrent, Has, Current

LEMMA NamedContext ==
    ASSUME HgctlInv, NEW p \in Procs, HasNamed(p)
    PROVE  /\ proc[p].name \in Names
           /\ Named(p) \in Contexts /\ SoundContext(Named(p), LoadConfig.cut, keyFile, raced)
  BY Loaded, ConfigFacts, SoundFacts DEF HasNamed, Has, Named

LEMMA SavingCurrentKeeps ==
    ASSUME HgctlInv, NEW p \in Procs, HasCurrent, NEW cx \in Contexts,
           SoundContext(cx, LoadConfig.cut, keyFile, raced), SavingCurrent(p, cx),
           UNCHANGED <<file, keyFile, raced>>
    PROVE  HgctlInv'
<1>1. /\ WithContext(LoadConfig, LoadConfig.current, cx) \in Copies
      /\ Sound(WithContext(LoadConfig, LoadConfig.current, cx), keyFile, raced)
  BY Loaded, CurrentContext, WithContextSound
<1> QED
  BY <1>1, SavingKeeps DEF SavingCurrent

LEMMA SavingNamedKeeps ==
    ASSUME HgctlInv, NEW p \in Procs, HasNamed(p), NEW cx \in Contexts,
           SoundContext(cx, LoadConfig.cut, keyFile, raced), SavingNamed(p, cx)
    PROVE  HgctlInv'
<1>1. /\ WithContext(LoadConfig, proc[p].name, cx) \in Copies
      /\ Sound(WithContext(LoadConfig, proc[p].name, cx), keyFile, raced)
  BY Loaded, NamedContext, WithContextSound
<1> QED
  BY <1>1, SavingKeeps DEF SavingNamed

(* config.go *)
LEMMA SaveKeeps ==
    ASSUME HgctlInv, NEW p \in Procs,
           SaveBegins(p) \/ SaveEnds(p) \/ SaveTorn(p) \/ Crash(p) \/ GivesUp(p)
    PROVE  HgctlInv'
<1>0. /\ proc \in [Procs -> Processes] /\ proc[p] \in Processes
      /\ Sound(proc[p].cfg, keyFile, raced) /\ proc[p].cfg \in Copies
      /\ file \in Files /\ Sound(file.cfg, keyFile, raced)
  BY DEF HgctlInv, HgctlTypes, CopiesAreSound, Processes
<1>i. AtPrompt \in Processes /\ Sound(AtPrompt.cfg, keyFile, raced) /\ NamesSet(AtPrompt) /\ AtPrompt.at = "idle"
  BY IdleProcess DEF NamesSet
<1>f. ASSUME NEW c \in Copies, NEW k \in {"empty", "corrupt", "ok"}
      PROVE  [kind |-> k, cfg |-> c] \in Files
  <2>1. PICK D \in SUBSET Names : c \in ConfigsOf(D)
    BY DEF Copies
  <2>2. [kind |-> k, cfg |-> c] \in FilesOf(D)
    BY <2>1 DEF FilesOf
  <2> QED
    BY <2>2 DEF Files
<1>e. Truncated \in Files /\ Sound(Truncated.cfg, keyFile, raced)
  BY <1>f, FixedConfigs DEF Truncated
<1>w. Written(p) \in Copies /\ Sound(Written(p), keyFile, raced)
  BY <1>0, FlagsSound DEF Written
<1>c. ASSUME NEW c \in Copies, Sound(c, keyFile, raced)
      PROVE  /\ Complete(c) \in Files /\ Sound(Complete(c).cfg, keyFile, raced)
             /\ Corrupt(c) \in Files /\ Sound(Corrupt(c).cfg, keyFile, raced)
  BY <1>f, <1>c DEF Complete, Corrupt
<1>1. CASE SaveBegins(p)
  <2> DEFINE q == [proc[p] EXCEPT !.at = IF @ = "save" THEN "saving" ELSE "savingOperator"]
  <2>1. proc' = [proc EXCEPT ![p] = q]
    BY <1>1, <1>0 DEF SaveBegins
  <2>2. q \in Processes /\ q.at \in {"saving", "savingOperator"} /\ q.cfg = proc[p].cfg
    BY <1>0 DEF Processes, Stages
  <2> HIDE DEF q
  <2>3. NamesSet(q)
    BY <2>2 DEF NamesSet
  <2>4. file' = Truncated /\ UNCHANGED <<keyFile, raced>>
    BY <1>1 DEF SaveBegins
  <2> QED
    BY <1>0, <1>e, <2>1, <2>2, <2>3, <2>4, CommandKeeps
<1>2. CASE SaveEnds(p)
  <2> DEFINE q == IF proc[p].at = "saving" THEN AtPrompt
                  ELSE [AtPrompt EXCEPT !.at = "wizardReload", !.name = proc[p].name]
  <2>1. proc' = [proc EXCEPT ![p] = q] /\ UNCHANGED <<keyFile, raced>>
    BY <1>2, <1>0 DEF SaveEnds
  <2>2. q \in Processes /\ q.at \in {"idle", "wizardReload"} /\ q.cfg = AtPrompt.cfg
    BY <1>0, <1>i DEF Processes, Stages
  <2> HIDE DEF q
  <2>3. NamesSet(q)
    BY <2>2 DEF NamesSet
  <2>4. file.cfg \in Copies /\ Sound(file.cfg, keyFile, raced)
    BY <1>0, Loaded
  <2>5. file' = Complete(Written(p)) \/ LeavesMixed(Written(p), file.cfg)
    BY <1>2 DEF SaveEnds
  <2>6. \/ file' = Corrupt(Written(p))
        \/ \E d \in Copies : file' = Complete(d) /\ Sound(d, keyFile, raced)
    BY <1>w, <2>4, <2>5, MixedSound
  <2>7. file' \in Files /\ Sound(file'.cfg, keyFile, raced)
    BY <1>w, <1>c, <2>6
  <2> QED
    BY <1>i, <2>1, <2>2, <2>3, <2>7, CommandKeeps
<1>3. CASE SaveTorn(p)
  <2>1. LeavesCut(Written(p))
    BY <1>3 DEF SaveTorn
  <2>2. \/ file' = Corrupt(Written(p))
        \/ \E d \in Copies : file' = Complete(d) /\ Sound(d, keyFile, raced)
    BY <1>w, <2>1, CutConfigSound
  <2>3. file' \in Files /\ Sound(file'.cfg, keyFile, raced)
    BY <1>w, <1>c, <2>2
  <2> QED
    BY <1>3, <1>i, <2>3, CommandKeeps DEF SaveTorn
<1>4. CASE Crash(p) \/ GivesUp(p)
  BY <1>4, <1>i, CommandMoves DEF Crash, GivesUp
<1> QED
  BY <1>1, <1>2, <1>3, <1>4

(* commands/context *)
LEMMA ContextKeeps ==
    ASSUME HgctlInv, NEW p \in Procs, ContextCommand(p)
    PROVE  HgctlInv'
<1>0. /\ proc \in [Procs -> Processes] /\ proc[p] \in Processes
      /\ Sound(proc[p].cfg, keyFile, raced) /\ proc[p].cfg \in Copies
      /\ NamesSet(proc[p]) /\ proc[p].use \in BOOLEAN
  BY DEF HgctlInv, HgctlTypes, CopiesAreSound, NamesAreSet, Processes
\* What create and copy start with.
<1>q. ASSUME NEW at \in {"create", "copy"}, NEW c \in Copies, NEW n \in Names, NEW use \in BOOLEAN,
             Sound(c, keyFile, raced), at = "copy" => Has(c, n),
             proc' = [proc EXCEPT ![p] = [AtPrompt EXCEPT !.at = at, !.cfg = c, !.name = n, !.use = use]],
             UNCHANGED <<file, keyFile, raced>>
      PROVE  HgctlInv'
  <2> DEFINE q == [AtPrompt EXCEPT !.at = at, !.cfg = c, !.name = n, !.use = use]
  <2>1. q \in Processes /\ q.at = at /\ q.cfg = c /\ q.name = n
    BY IdleProcess DEF Processes, Stages
  <2> HIDE DEF q
  <2>2. NamesSet(q)
    BY <1>q, <2>1 DEF NamesSet
  <2> QED
    BY <1>q, <2>1, <2>2, CommandMoves DEF q
\* What they end with.
<1>a. ASSUME NEW n \in Names, NEW cx \in Contexts, SoundContext(cx, proc[p].cfg.cut, keyFile, raced),
             LET c == WithContext(proc[p].cfg, n, cx)
             IN Saving(p, IF proc[p].use THEN [c EXCEPT !.current = n] ELSE c),
             UNCHANGED <<file, keyFile, raced>>
      PROVE  HgctlInv'
  <2> DEFINE c == WithContext(proc[p].cfg, n, cx)
  <2>1. c \in Copies /\ Sound(c, keyFile, raced) /\ Has(c, n)
    BY <1>0, <1>a, WithContextSound
  <2>2. Saving(p, IF proc[p].use THEN [c EXCEPT !.current = n] ELSE c)
    BY <1>a
  <2> HIDE DEF c
  <2>3. [c EXCEPT !.current = n] \in Copies /\ Sound([c EXCEPT !.current = n], keyFile, raced)
    BY <2>1, CurrentSound
  <2> QED
    BY <1>a, <2>1, <2>2, <2>3, SavingKeeps
<1>1. CASE ContextCreate(p)
  BY <1>1, <1>q, Loaded DEF ContextCreate
<1>2. CASE SaveContext(p)
  <2>1. proc[p].name \in Names
    BY <1>0, <1>2 DEF SaveContext, NamesSet
  <2>2. NewContext \in Contexts /\ SoundContext(NewContext, proc[p].cfg.cut, keyFile, raced)
    BY FixedConfigs
  <2> QED
    BY <1>2, <1>a, <2>1, <2>2 DEF SaveContext
<1>3. CASE ContextCopy(p)
  BY <1>3, <1>q, Loaded DEF ContextCopy
<1>4. CASE PerformContextCopy(p)
  <2> DEFINE old == proc[p].cfg.contexts[proc[p].name]
             cx == deepCopyContext(old)
  <2>1. old \in Contexts /\ SoundContext(old, proc[p].cfg.cut, keyFile, raced)
    BY <1>0, <1>4, ConfigFacts, SoundFacts DEF PerformContextCopy, NamesSet, Has
  <2>2. cx \in Contexts /\ cx.keystores = old.keystores /\ cx.op = Unset /\ cx.sys = NoSystem
    BY <2>1, FixedConfigs DEF deepCopyContext, Contexts, NewContext
  <2> HIDE DEF old, cx
  <2>3. SoundContext(cx, proc[p].cfg.cut, keyFile, raced)
    BY <2>1, <2>2 DEF SoundContext, Found, Unset, NoSystem
  <2>4. PICK n \in Names :
           LET c == WithContext(proc[p].cfg, n, cx)
           IN Saving(p, IF proc[p].use THEN [c EXCEPT !.current = n] ELSE c)
    BY <1>4 DEF PerformContextCopy, cx, old
  <2>5. UNCHANGED <<file, keyFile, raced>>
    BY <1>4 DEF PerformContextCopy
  <2> QED
    BY <1>a, <2>2, <2>3, <2>4, <2>5
<1>5. CASE ContextDelete(p)
  <2>1. PICK n \in Names :
           /\ validateNotCurrentContext(LoadConfig, n)
           /\ Saving(p, [LoadConfig EXCEPT !.contexts =
                 [m \in DOMAIN LoadConfig.contexts \ {n} |-> LoadConfig.contexts[m]]])
    BY <1>5 DEF ContextDelete
  <2>2. UNCHANGED <<file, keyFile, raced>>
    BY <1>5 DEF ContextDelete
  <2> QED
    BY <2>1, <2>2, Loaded, DeleteSound, SavingKeeps
<1>6. CASE ContextUse(p)
  BY <1>6, Loaded, CurrentSound, SavingKeeps DEF ContextUse
<1>7. CASE ContextSet(p)
  <2>1. PICK props, exp \in BOOLEAN :
           SavingCurrent(p, [Current EXCEPT !.props = @ \/ props, !.experimental = exp])
    BY <1>7 DEF ContextSet
  <2>2. HasCurrent /\ UNCHANGED <<file, keyFile, raced>>
    BY <1>7 DEF ContextSet
  <2> DEFINE cx == [Current EXCEPT !.props = @ \/ props, !.experimental = exp]
  <2>3. Current \in Contexts /\ SoundContext(Current, LoadConfig.cut, keyFile, raced)
    BY <2>2, CurrentContext
  <2>4. /\ cx \in Contexts /\ cx.keystores = Current.keystores
        /\ cx.op = Current.op /\ cx.sys = Current.sys
    BY <2>3 DEF Contexts
  <2>5. SavingCurrent(p, cx)
    BY <2>1
  <2> HIDE DEF cx
  <2>6. SoundContext(cx, LoadConfig.cut, keyFile, raced)
    BY <2>3, <2>4 DEF SoundContext, Found
  <2> QED
    BY <2>2, <2>4, <2>5, <2>6, SavingCurrentKeeps
<1>8. CASE ContextRemove(p)
  <2>1. HasCurrent /\ UNCHANGED <<file, keyFile, raced>>
    BY <1>8 DEF ContextRemove
  <2> DEFINE cx == [Current EXCEPT !.props = FALSE]
  <2>2. Current \in Contexts /\ SoundContext(Current, LoadConfig.cut, keyFile, raced)
    BY <2>1, CurrentContext
  <2>3. /\ cx \in Contexts /\ cx.keystores = Current.keystores
        /\ cx.op = Current.op /\ cx.sys = Current.sys
    BY <2>2 DEF Contexts
  <2>4. SavingCurrent(p, cx)
    BY <1>8 DEF ContextRemove
  <2> HIDE DEF cx
  <2>5. SoundContext(cx, LoadConfig.cut, keyFile, raced)
    BY <2>2, <2>3 DEF SoundContext, Found
  <2> QED
    BY <2>1, <2>3, <2>4, <2>5, SavingCurrentKeeps
<1> QED
  BY <1>1, <1>2, <1>3, <1>4, <1>5, <1>6, <1>7, <1>8 DEF ContextCommand

(* commands/telemetry *)
LEMMA TelemetryKeeps ==
    ASSUME HgctlInv, NEW p \in Procs, TelemetryCommand(p)
    PROVE  HgctlInv'
<1>1. PICK b \in BOOLEAN : SavingTelemetry(p, b)
  BY DEF TelemetryCommand, EnableTelemetry, DisableTelemetry, TelemetryWizard
<1>2. Saving(p, [LoadConfig EXCEPT !.telemetry = b]) /\ UNCHANGED <<file, keyFile, raced>>
  BY <1>1 DEF SavingTelemetry
<1> QED
  BY <1>2, Loaded, FlagsSound, SavingKeeps

(* commands/keystore.  A path that two commands wrote at once is out; for  *)
(* the others, a command between os.Stat and os.WriteFile is alone.        *)
LEMMA StatKeeps ==
    ASSUME HgctlInv, NEW p \in Procs, StatKeyFile(p)
    PROVE  HgctlInv'
<1>0. HgctlTypes /\ CopiesAreSound /\ NamesAreSet /\ KeyWritersAreAlone
  BY DEF HgctlInv
<1> DEFINE q == [proc[p] EXCEPT !.at = "openKey"]
           path == proc[p].key.path
<1>1. /\ proc \in [Procs -> Processes] /\ proc[p] \in Processes
      /\ NamesSet(proc[p]) /\ Sound(proc[p].cfg, keyFile, raced)
  BY <1>0 DEF HgctlTypes, NamesAreSet, CopiesAreSound
<1>2. /\ proc[p].at = "password" /\ keyFile[path] = "none"
      /\ proc' = [proc EXCEPT ![p] = q] /\ UNCHANGED <<file, keyFile>>
  BY <1>1 DEF StatKeyFile, NoKeyFile
<1>3. /\ raced \subseteq raced'
      /\ \A r \in Procs : r # p /\ Writing(r) /\ proc[r].key.path = path => path \in raced'
  BY DEF StatKeyFile, Writing
<1>4. /\ q \in Processes /\ q.at = "openKey" /\ q.cfg = proc[p].cfg /\ q.key = proc[p].key
      /\ q.name = proc[p].name
  BY <1>1 DEF Processes, Stages
<1>5. \A r \in Procs : proc'[r] = IF r = p THEN q ELSE proc[r]
  BY <1>1, <1>2
<1> HIDE DEF q
<1>6. \A c : Sound(c, keyFile, raced) => Sound(c, keyFile, raced')
  BY <1>3 DEF Sound, KeysIn
<1>7. HgctlTypes'
  BY <1>0, <1>1, <1>2, <1>4 DEF HgctlTypes, KeyFiles, Paths, Types
<1>8. CopiesAreSound'
  BY <1>0, <1>2, <1>4, <1>5, <1>6 DEF CopiesAreSound
<1>9. NamesAreSet'
  <2>1. NamesSet(q)
    BY <1>1, <1>2, <1>4 DEF NamesSet
  <2> QED
    BY <1>0, <1>5, <2>1 DEF NamesAreSet
<1>10. KeyWritersAreAlone'
  <2>1. ASSUME NEW r \in Procs, proc'[r].key.path \notin raced'
        PROVE  /\ proc'[r].at = "openKey" => keyFile'[proc'[r].key.path] = "none"
               /\ proc'[r].at = "writeKey" => keyFile'[proc'[r].key.path] = "partial"
    BY <1>0, <1>2, <1>3, <1>4, <1>5, <2>1 DEF KeyWritersAreAlone
  <2>2. ASSUME NEW r \in Procs, NEW x \in Procs, r # x, Writing(r)', Writing(x)',
               proc'[r].key.path = proc'[x].key.path
        PROVE  proc'[r].key.path \in raced'
    BY <1>0, <1>3, <1>4, <1>5, <2>2 DEF KeyWritersAreAlone, Writing
  <2> QED
    BY <2>1, <2>2 DEF KeyWritersAreAlone
<1> QED
  BY <1>7, <1>8, <1>9, <1>10 DEF HgctlInv

LEMMA TruncateKeeps ==
    ASSUME HgctlInv, NEW p \in Procs, TruncateKeyFile(p)
    PROVE  HgctlInv'
<1>0. HgctlTypes /\ CopiesAreSound /\ NamesAreSet /\ KeyWritersAreAlone
  BY DEF HgctlInv
<1> DEFINE q == [proc[p] EXCEPT !.at = "writeKey"]
           path == proc[p].key.path
<1>1. /\ proc \in [Procs -> Processes] /\ proc[p] \in Processes
      /\ NamesSet(proc[p]) /\ keyFile \in KeyFiles
  BY <1>0 DEF HgctlTypes, NamesAreSet
<1>2. /\ proc[p].at = "openKey" /\ proc' = [proc EXCEPT ![p] = q] /\ UNCHANGED <<file, raced>>
      /\ keyFile' = [keyFile EXCEPT ![path] = "partial"]
  BY <1>1 DEF TruncateKeyFile
<1>3. path \in Paths /\ (path \in raced \/ keyFile[path] = "none")
  BY <1>0, <1>1, <1>2 DEF NamesSet, KeyWritersAreAlone
<1>4. /\ q \in Processes /\ q.at = "writeKey" /\ q.cfg = proc[p].cfg /\ q.key = proc[p].key
      /\ q.name = proc[p].name
  BY <1>1 DEF Processes, Stages
<1>5. \A r \in Procs : proc'[r] = IF r = p THEN q ELSE proc[r]
  BY <1>1, <1>2
<1> HIDE DEF q
<1>6. /\ keyFile' \in KeyFiles /\ keyFile'[path] = "partial"
      /\ \A x \in Paths : x # path => keyFile'[x] = keyFile[x]
  BY <1>1, <1>2, <1>3 DEF KeyFiles
\* Nobody lists the file: what is listed is complete.
<1>7. ASSUME NEW c, Sound(c, keyFile, raced) PROVE Sound(c, keyFile', raced)
  BY <1>3, <1>6, <1>7 DEF Sound, KeysIn, Types
<1>8. HgctlTypes'
  BY <1>0, <1>1, <1>2, <1>4, <1>6 DEF HgctlTypes, KeyFiles, Paths, Types
<1>9. CopiesAreSound'
  BY <1>0, <1>2, <1>4, <1>5, <1>7 DEF CopiesAreSound
<1>10. NamesAreSet'
  <2>1. NamesSet(q)
    BY <1>1, <1>2, <1>4 DEF NamesSet
  <2> QED
    BY <1>0, <1>5, <2>1 DEF NamesAreSet
<1>11. KeyWritersAreAlone'
  <2>1. ASSUME NEW r \in Procs, proc'[r].key.path \notin raced'
        PROVE  /\ proc'[r].at = "openKey" => keyFile'[proc'[r].key.path] = "none"
               /\ proc'[r].at = "writeKey" => keyFile'[proc'[r].key.path] = "partial"
    <3>1. CASE r = p
      BY <1>4, <1>5, <1>6, <3>1
    <3>2. CASE r # p /\ Writing(r)
      <4>1. proc[r].key.path # path /\ proc[r].key.path \in Paths
        BY <1>0, <1>2, <1>5, <2>1, <3>2 DEF KeyWritersAreAlone, Writing, NamesAreSet, NamesSet
      <4> QED
        BY <1>0, <1>2, <1>5, <1>6, <2>1, <3>2, <4>1 DEF KeyWritersAreAlone
    <3>3. CASE r # p /\ ~Writing(r)
      BY <1>5, <3>3 DEF Writing
    <3> QED
      BY <3>1, <3>2, <3>3
  <2>2. ASSUME NEW r \in Procs, NEW x \in Procs, r # x, Writing(r)', Writing(x)',
               proc'[r].key.path = proc'[x].key.path
        PROVE  proc'[r].key.path \in raced'
    BY <1>0, <1>2, <1>4, <1>5, <2>2 DEF KeyWritersAreAlone, Writing
  <2> QED
    BY <2>1, <2>2 DEF KeyWritersAreAlone
<1> QED
  BY <1>8, <1>9, <1>10, <1>11 DEF HgctlInv

LEMMA RegisterKeeps ==
    ASSUME HgctlInv, NEW p \in Procs, RegisterKey(p)
    PROVE  HgctlInv'
<1>0. HgctlTypes /\ CopiesAreSound /\ NamesAreSet /\ KeyWritersAreAlone
  BY DEF HgctlInv
<1> DEFINE c == proc[p].cfg
           cx == c.contexts[c.current]
           key == proc[p].key
           new == [cx EXCEPT !.keystores = @ \cup {key}]
           d == WithContext(c, c.current, new)
           q == [AtPrompt EXCEPT !.at = "save", !.cfg = d]
<1>1. /\ proc \in [Procs -> Processes] /\ c \in Copies /\ key \in Keys
      /\ NamesSet(proc[p]) /\ keyFile \in KeyFiles
  BY <1>0 DEF HgctlTypes, NamesAreSet, Processes
<1>2. /\ proc[p].at = "writeKey" /\ proc' = [proc EXCEPT ![p] = q] /\ UNCHANGED <<file, raced>>
      /\ keyFile' = [keyFile EXCEPT ![key.path] = key.type]
  BY DEF RegisterKey, Saving
<1>3. key.path \in Paths /\ key.type \in Types /\ Has(c, c.current)
  BY <1>1, <1>2 DEF NamesSet
<1>4. /\ keyFile' \in KeyFiles /\ keyFile'[key.path] \in Types
      /\ \A x \in Paths : x # key.path => keyFile'[x] = keyFile[x]
  BY <1>1, <1>2, <1>3 DEF KeyFiles
<1>5. ASSUME NEW e, Sound(e, keyFile, raced) PROVE Sound(e, keyFile', raced)
  BY <1>4, <1>5 DEF Sound, KeysIn
<1>6. Sound(c, keyFile, raced) /\ Sound(c, keyFile', raced)
  BY <1>0, <1>5 DEF CopiesAreSound
<1>7. c.current \in Names /\ cx \in Contexts /\ SoundContext(cx, c.cut, keyFile', raced)
  BY <1>1, <1>3, <1>6, ConfigFacts, SoundFacts DEF Has
<1>8. /\ new \in Contexts /\ new.keystores = cx.keystores \cup {key}
      /\ new.op = cx.op /\ new.sys = cx.sys
  <2> HIDE DEF cx, key
  <2> QED
    BY <1>1, <1>7 DEF Contexts
<1> HIDE DEF new, cx, key, c
<1>9. SoundContext(new, c.cut, keyFile', raced)
  BY <1>4, <1>7, <1>8 DEF SoundContext, Found
<1>10. d \in Copies /\ Sound(d, keyFile', raced)
  BY <1>1, <1>6, <1>7, <1>8, <1>9, WithContextSound
<1> HIDE DEF d
<1>11. q \in Processes /\ q.at = "save" /\ q.cfg = d
  BY <1>10, IdleProcess DEF Processes, Stages
<1> HIDE DEF q
<1>12. \A r \in Procs : proc'[r] = IF r = p THEN q ELSE proc[r]
  BY <1>1, <1>2
<1>13. HgctlTypes'
  BY <1>0, <1>1, <1>2, <1>4, <1>11 DEF HgctlTypes, KeyFiles, Paths, Types
<1>14. CopiesAreSound'
  BY <1>0, <1>2, <1>5, <1>10, <1>11, <1>12 DEF CopiesAreSound
<1>15. NamesAreSet'
  <2>1. NamesSet(q)
    BY <1>11 DEF NamesSet
  <2> QED
    BY <1>0, <1>12, <2>1 DEF NamesAreSet
<1>16. KeyWritersAreAlone'
  <2>1. ASSUME NEW r \in Procs, proc'[r].key.path \notin raced'
        PROVE  /\ proc'[r].at = "openKey" => keyFile'[proc'[r].key.path] = "none"
               /\ proc'[r].at = "writeKey" => keyFile'[proc'[r].key.path] = "partial"
    <3>1. CASE r = p
      BY <1>11, <1>12, <3>1
    <3>2. CASE r # p /\ Writing(r)
      <4>1. proc[r].key.path # proc[p].key.path /\ proc[r].key.path \in Paths
        BY <1>0, <1>2, <1>12, <2>1, <3>2 DEF KeyWritersAreAlone, Writing, NamesAreSet, NamesSet
      <4> QED
        BY <1>0, <1>2, <1>4, <1>12, <2>1, <3>2, <4>1 DEF KeyWritersAreAlone, key
    <3>3. CASE r # p /\ ~Writing(r)
      BY <1>12, <3>3 DEF Writing
    <3> QED
      BY <3>1, <3>2, <3>3
  <2>2. ASSUME NEW r \in Procs, NEW x \in Procs, r # x, Writing(r)', Writing(x)',
               proc'[r].key.path = proc'[x].key.path
        PROVE  proc'[r].key.path \in raced'
    BY <1>0, <1>2, <1>11, <1>12, <2>2 DEF KeyWritersAreAlone, Writing
  <2> QED
    BY <2>1, <2>2 DEF KeyWritersAreAlone
<1> QED
  BY <1>13, <1>14, <1>15, <1>16 DEF HgctlInv

LEMMA KeystoreKeeps ==
    ASSUME HgctlInv, NEW p \in Procs, KeystoreCommand(p)
    PROVE  HgctlInv'
<1>1. CASE KeystoreCreate(p)
  <2>1. PICK name \in KeyNames, t \in Types :
           /\ HasCurrent
           /\ proc' = [proc EXCEPT ![p] =
                [AtPrompt EXCEPT !.at = "password", !.cfg = LoadConfig,
                               !.key = [name |-> name, path |-> <<LoadConfig.current, name>>,
                                        type |-> t]]]
    BY <1>1 DEF KeystoreCreate
  <2>2. UNCHANGED <<file, keyFile, raced>>
    BY <1>1 DEF KeystoreCreate
  <2> DEFINE key == [name |-> name, path |-> <<LoadConfig.current, name>>, type |-> t]
             q == [AtPrompt EXCEPT !.at = "password", !.cfg = LoadConfig, !.key = key]
  <2>3. LoadConfig.current \in Names /\ Has(LoadConfig, LoadConfig.current)
    BY <2>1, CurrentContext DEF HasCurrent
  <2>4. key \in Keys /\ key.path \in Paths /\ key.type \in Types
    <3>1. <<LoadConfig.current, name>> \in Paths
      BY <2>3 DEF Paths
    <3> QED
      BY <3>1 DEF Keys
  <2> HIDE DEF key
  <2>5. LoadConfig \in Copies /\ Sound(LoadConfig, keyFile, raced)
    BY Loaded
  <2>6. q \in Processes /\ q.at = "password" /\ q.cfg = LoadConfig /\ q.key = key
    BY <2>4, <2>5, IdleProcess DEF Processes, Stages
  <2>7. proc' = [proc EXCEPT ![p] = q]
    BY <2>1 DEF key
  <2> HIDE DEF q
  <2>8. NamesSet(q)
    BY <2>3, <2>4, <2>6 DEF NamesSet
  <2> QED
    BY <2>2, <2>5, <2>6, <2>7, <2>8, CommandMoves
<1>2. CASE KeystoreImport(p)
  <2>1. PICK name \in KeyNames, t \in Types :
           SavingCurrent(p, [Current EXCEPT !.keystores =
               @ \cup {[name |-> name, path |-> External(t), type |-> t]}])
    BY <1>2 DEF KeystoreImport
  <2>2. HasCurrent /\ UNCHANGED <<file, keyFile, raced>>
    BY <1>2 DEF KeystoreImport
  <2> DEFINE key == [name |-> name, path |-> External(t), type |-> t]
             cx == [Current EXCEPT !.keystores = @ \cup {key}]
  <2>3. key \in Keys
    BY DEF Keys
  <2>4. key.path \notin Paths
    <3>1. ASSUME NEW n \in Names, NEW k PROVE <<"external", t>> # <<n, k>>
      BY HgctlConstants
    <3>2. <<"external", t>> \notin Paths
      <4> SUFFICES ASSUME <<"external", t>> \in Paths PROVE FALSE
        OBVIOUS
      <4>1. PICK n \in Names, k \in KeyNames : <<"external", t>> = <<n, k>>
        BY DEF Paths
      <4> QED
        BY <3>1, <4>1
    <3> QED
      BY <3>2 DEF External
  <2> HIDE DEF key
  <2>5. Current \in Contexts /\ SoundContext(Current, LoadConfig.cut, keyFile, raced)
    BY <2>2, CurrentContext
  <2>6. /\ cx \in Contexts /\ cx.keystores = Current.keystores \cup {key}
        /\ cx.op = Current.op /\ cx.sys = Current.sys
    BY <2>3, <2>5 DEF Contexts
  <2>7. SavingCurrent(p, cx)
    BY <2>1 DEF key
  <2> HIDE DEF cx
  <2>8. SoundContext(cx, LoadConfig.cut, keyFile, raced)
    BY <2>4, <2>5, <2>6 DEF SoundContext, Found
  <2> QED
    BY <2>2, <2>6, <2>7, <2>8, SavingCurrentKeeps
<1> QED
  BY <1>1, <1>2, StatKeeps, TruncateKeeps, RegisterKeeps DEF KeystoreCommand

(* commands/signer.  A signer set from a keystore is set from one that the *)
(* context lists in the same reading of the file.                          *)
LEMMA SignerMade ==
    ASSUME NEW cx \in Contexts, NEW k \in cx.keystores
    PROVE  InKeystore(k) \in Signers /\ Found(cx, InKeystore(k))
  BY DEF InKeystore, Signers, Found, Contexts

LEMMA OperatorSet ==
    ASSUME NEW cx \in Contexts, NEW cut, NEW keys, NEW lost, SoundContext(cx, cut, keys, lost),
           NEW s \in Signers, Found(cx, s)
    PROVE  LET d == [cx EXCEPT !.op = s] IN d \in Contexts /\ SoundContext(d, cut, keys, lost)
<1> DEFINE d == [cx EXCEPT !.op = s]
<1>1. d \in Contexts /\ d.keystores = cx.keystores /\ d.op = s /\ d.sys = cx.sys
  BY DEF Contexts
<1> HIDE DEF d
<1>2. SoundContext(d, cut, keys, lost)
  BY <1>1 DEF SoundContext, Found
<1> QED
  BY <1>1, <1>2 DEF d

LEMMA SystemSet ==
    ASSUME NEW cx \in Contexts, NEW cut, NEW keys, NEW lost, SoundContext(cx, cut, keys, lost),
           NEW sys \in [set : BOOLEAN, ecdsa : Signers, bn254 : Signers],
           cut \/ (Found(cx, sys.ecdsa) /\ Found(cx, sys.bn254))
    PROVE  LET d == [cx EXCEPT !.sys = sys] IN d \in Contexts /\ SoundContext(d, cut, keys, lost)
<1> DEFINE d == [cx EXCEPT !.sys = sys]
<1>1. d \in Contexts /\ d.keystores = cx.keystores /\ d.op = cx.op /\ d.sys = sys
  BY DEF Contexts
<1> HIDE DEF d
<1>2. SoundContext(d, cut, keys, lost)
  BY <1>1 DEF SoundContext, Found
<1> QED
  BY <1>1, <1>2 DEF d

LEMMA SystemMade ==
    ASSUME NEW cx, NEW b \in BOOLEAN, NEW s \in Signers, NEW t \in Signers,
           Found(cx, s), Found(cx, t)
    PROVE  LET sys == [set |-> b, ecdsa |-> s, bn254 |-> t]
           IN  /\ sys \in [set : BOOLEAN, ecdsa : Signers, bn254 : Signers]
               /\ Found(cx, sys.ecdsa) /\ Found(cx, sys.bn254)
  OBVIOUS

LEMMA SignerKeysKeep ==
    ASSUME HgctlInv, NEW p \in Procs, SignerKeys(p)
    PROVE  HgctlInv'
<1>0. HasNamed(p)
  BY DEF SignerKeys, OperatorPrivateKey, OperatorKeystore, SystemPrivateKey,
         SystemKeystore, SystemRemove, RemoveSignerConfig
<1>n. Named(p) \in Contexts /\ SoundContext(Named(p), LoadConfig.cut, keyFile, raced)
  BY <1>0, NamedContext
<1>1. CASE OperatorPrivateKey(p)
  BY <1>0, <1>n, <1>1, KeylessSigners, OperatorSet, SavingNamedKeeps DEF OperatorPrivateKey
<1>2. CASE OperatorKeystore(p)
  <2>1. PICK k \in Named(p).keystores :
           SavingNamed(p, [Named(p) EXCEPT !.op = InKeystore(k)])
    BY <1>2 DEF OperatorKeystore
  <2>2. InKeystore(k) \in Signers /\ Found(Named(p), InKeystore(k))
    BY <1>n, SignerMade
  <2> QED
    BY <1>0, <1>n, <2>1, <2>2, OperatorSet, SavingNamedKeeps
<1>3. CASE SystemPrivateKey(p)
  <2> DEFINE d == [Named(p) EXCEPT !.sys = [set |-> TRUE, ecdsa |-> FromEnv, bn254 |-> Unset]]
  <2>1. d \in Contexts /\ SoundContext(d, LoadConfig.cut, keyFile, raced)
    BY <1>n, KeylessSigners, SystemMade, SystemSet
  <2>2. SavingNamed(p, d)
    BY <1>3 DEF SystemPrivateKey
  <2> QED
    BY <1>0, <2>1, <2>2, SavingNamedKeeps
<1>4. CASE SystemKeystore(p)
  <2>1. PICK k \in Named(p).keystores :
           SavingNamed(p, [Named(p) EXCEPT !.sys =
               [set |-> TRUE,
                ecdsa |-> IF k.type = "ecdsa" THEN InKeystore(k) ELSE Unset,
                bn254 |-> IF k.type = "bn254" THEN InKeystore(k) ELSE Unset]])
    BY <1>4 DEF SystemKeystore
  <2> DEFINE e == IF k.type = "ecdsa" THEN InKeystore(k) ELSE Unset
             b == IF k.type = "bn254" THEN InKeystore(k) ELSE Unset
             d == [Named(p) EXCEPT !.sys = [set |-> TRUE, ecdsa |-> e, bn254 |-> b]]
  <2>2. /\ e \in Signers /\ Found(Named(p), e)
        /\ b \in Signers /\ Found(Named(p), b)
    BY <1>n, SignerMade, KeylessSigners
  <2>3. SavingNamed(p, d)
    BY <2>1
  <2> HIDE DEF e, b
  <2>4. d \in Contexts /\ SoundContext(d, LoadConfig.cut, keyFile, raced)
    BY <1>n, <2>2, SystemMade, SystemSet
  <2> QED
    BY <1>0, <2>3, <2>4, SavingNamedKeeps
<1>5. CASE SystemRemove(p)
  <2> DEFINE d == [Named(p) EXCEPT !.sys = [set |-> FALSE, ecdsa |-> Unset, bn254 |-> Unset]]
  <2>1. d \in Contexts /\ SoundContext(d, LoadConfig.cut, keyFile, raced)
    BY <1>n, KeylessSigners, SystemMade, SystemSet
  <2>2. SavingNamed(p, d)
    BY <1>5 DEF SystemRemove, NoSystem
  <2> QED
    BY <1>0, <2>1, <2>2, SavingNamedKeeps
<1>6. CASE RemoveSignerConfig(p)
  <2> DEFINE c == [Named(p) EXCEPT !.op = Unset]
             d == [c EXCEPT !.sys = [set |-> FALSE, ecdsa |-> Unset, bn254 |-> Unset]]
             e == [Named(p) EXCEPT !.op = Unset,
                       !.sys = [set |-> FALSE, ecdsa |-> Unset, bn254 |-> Unset]]
  <2>1. c \in Contexts /\ SoundContext(c, LoadConfig.cut, keyFile, raced)
    BY <1>n, KeylessSigners, OperatorSet
  <2>2. d = e
    BY <1>n DEF Contexts
  <2>3. SavingNamed(p, e)
    BY <1>6 DEF RemoveSignerConfig, NoSystem
  <2> HIDE DEF c, e
  <2>4. d \in Contexts /\ SoundContext(d, LoadConfig.cut, keyFile, raced)
    BY <2>1, KeylessSigners, SystemMade, SystemSet
  <2> HIDE DEF d
  <2> QED
    BY <1>0, <2>2, <2>3, <2>4, SavingNamedKeeps
<1> QED
  BY <1>1, <1>2, <1>3, <1>4, <1>5, <1>6 DEF SignerKeys

(* commands/signer, the wizard: its choices reach the file only through    *)
(* buildConfig, which looks a keystore up again.                           *)
LEMMA BuiltSigner ==
    ASSUME NEW cx \in Contexts, NEW w
    PROVE  buildConfig(w, cx) \in Signers /\ Found(cx, buildConfig(w, cx))
<1>1. CASE w.signer = "env"
  BY <1>1, KeylessSigners DEF buildConfig
<1>2. CASE w.signer # "env" /\ w.signer = "web3signer"
  BY <1>2, KeylessSigners DEF buildConfig
<1>3. CASE w.signer # "env" /\ w.signer # "web3signer" /\ ~Listed(cx, w.key.name)
  BY <1>3, KeylessSigners DEF buildConfig
<1>4. CASE w.signer # "env" /\ w.signer # "web3signer" /\ Listed(cx, w.key.name)
  <2> DEFINE k == CHOOSE x \in cx.keystores : x.name = w.key.name
  <2>1. k \in cx.keystores
    BY <1>4 DEF Listed
  <2>2. buildConfig(w, cx) = InKeystore(k)
    BY <1>4 DEF buildConfig
  <2> HIDE DEF k
  <2> QED
    BY <2>1, <2>2, SignerMade
<1> QED
  BY <1>1, <1>2, <1>3, <1>4

LEMMA AtWizardKeeps ==
    ASSUME HgctlInv, NEW p \in Procs, NEW w \in Wizards, AtWizard(p, w)
    PROVE  HgctlInv'
<1> DEFINE q == [proc[p] EXCEPT !.at = "wizard", !.wizard = w]
<1>0. proc \in [Procs -> Processes] /\ proc[p] \in Processes /\ Sound(proc[p].cfg, keyFile, raced)
  BY DEF HgctlInv, HgctlTypes, CopiesAreSound
<1>1. proc' = [proc EXCEPT ![p] = q] /\ UNCHANGED <<file, keyFile, raced>>
  BY <1>0 DEF AtWizard
<1>2. q \in Processes /\ q.at = "wizard" /\ q.cfg = proc[p].cfg
  BY <1>0 DEF Processes, Stages
<1> HIDE DEF q
<1>3. NamesSet(q)
  BY <1>2 DEF NamesSet
<1> QED
  BY <1>0, <1>1, <1>2, <1>3, CommandMoves

LEMMA WizardKeeps ==
    ASSUME HgctlInv, NEW p \in Procs, Wizard(p)
    PROVE  HgctlInv'
<1> DEFINE w == proc[p].wizard
<1>0. /\ proc \in [Procs -> Processes] /\ proc[p] \in Processes /\ w \in Wizards
      /\ proc[p].name \in Names \cup {""} /\ Sound(proc[p].cfg, keyFile, raced)
  BY DEF HgctlInv, HgctlTypes, CopiesAreSound, Processes
<1>k. NoKey \in Keys /\ NoWizard \in Wizards
  <2>1. NoKey \in Keys
    BY DEF NoKey, Keys
  <2> QED
    BY <2>1 DEF NoWizard, Wizards, SignerKinds, Types
<1>o. \A type, t : getSignerTypeItems(p, type, t) \subseteq SignerKinds
  BY DEF getSignerTypeItems, SignerKinds
<1>a. ASSUME OperatorWizard(p) PROVE HgctlInv'
  <2> DEFINE v == [NoWizard EXCEPT !.type = "operator", !.stage = "signerType", !.list = "signers",
                                     !.keyType = "ecdsa",
                                     !.offers = getSignerTypeItems(p, "operator", "ecdsa")]
  <2>1. v \in Wizards
    BY <1>k, <1>o DEF Wizards, Types
  <2>2. AtWizard(p, v)
    BY <1>a DEF OperatorWizard
  <2> QED
    BY <2>1, <2>2, AtWizardKeeps
<1>b. ASSUME SystemWizard(p) PROVE HgctlInv'
  <2> DEFINE v == [NoWizard EXCEPT !.type = "system", !.stage = "keyType", !.list = "keyTypes"]
  <2>1. v \in Wizards
    BY <1>k DEF Wizards
  <2>2. AtWizard(p, v)
    BY <1>b DEF SystemWizard
  <2> QED
    BY <2>1, <2>2, AtWizardKeeps
<1>1. CASE SignerWizard(p) \/ WizardReload(p)
  BY <1>1, <1>a, <1>b DEF SignerWizard, WizardReload
<1>2. CASE EnterKeyType(p)
  <2>1. PICK t \in Types :
           AtWizard(p, [w EXCEPT !.keyType = t, !.stage = "signerType", !.list = "signers",
                                   !.offers = getSignerTypeItems(p, "system", t)])
    BY <1>2 DEF EnterKeyType
  <2>2. [w EXCEPT !.keyType = t, !.stage = "signerType", !.list = "signers",
                  !.offers = getSignerTypeItems(p, "system", t)] \in Wizards
    BY <1>0, <1>o DEF Wizards
  <2> QED
    BY <2>1, <2>2, AtWizardKeeps
<1>3. CASE EnterSignerType(p)
  <2>1. PICK s \in w.offers :
           LET v == [w EXCEPT !.signer = s]
           IN \/ AtWizard(p, [v EXCEPT !.stage = "confirm"])
              \/ AtWizard(p, [v EXCEPT !.stage = "text"])
              \/ /\ HasNamed(p)
                 /\ AtWizard(p, [v EXCEPT !.stage = "keystore", !.list = "keystores",
                                            !.keys = ExistingKeystores(p, v.keyType)])
    BY <1>3 DEF EnterSignerType
  <2> DEFINE v == [w EXCEPT !.signer = s]
  <2>2. v \in Wizards
    BY <1>0 DEF Wizards
  <2>3. \/ AtWizard(p, [v EXCEPT !.stage = "confirm"])
        \/ AtWizard(p, [v EXCEPT !.stage = "text"])
        \/ /\ HasNamed(p)
           /\ AtWizard(p, [v EXCEPT !.stage = "keystore", !.list = "keystores",
                                      !.keys = ExistingKeystores(p, v.keyType)])
    BY <2>1
  <2> HIDE DEF v
  <2>4. HasNamed(p) => \A t : ExistingKeystores(p, t) \subseteq Keys
    BY NamedContext DEF ExistingKeystores, Contexts
  <2>5. [v EXCEPT !.stage = "confirm"] \in Wizards /\ [v EXCEPT !.stage = "text"] \in Wizards
    BY <2>2 DEF Wizards
  <2>6. HasNamed(p) => [v EXCEPT !.stage = "keystore", !.list = "keystores",
                                   !.keys = ExistingKeystores(p, v.keyType)] \in Wizards
    BY <2>2, <2>4 DEF Wizards
  <2> QED
    BY <2>3, <2>5, <2>6, AtWizardKeeps
<1>4. CASE EnterKeystore(p)
  <2>1. PICK k \in w.keys : AtWizard(p, [w EXCEPT !.key = k, !.stage = "confirm"])
    BY <1>4 DEF EnterKeystore
  <2>2. [w EXCEPT !.key = k, !.stage = "confirm"] \in Wizards
    BY <1>0 DEF Wizards
  <2> QED
    BY <2>1, <2>2, AtWizardKeeps
<1>5. CASE EnterText(p)
  <2>1. AtWizard(p, [w EXCEPT !.stage = "confirm", !.list = "tls"])
    BY <1>5 DEF EnterText
  <2>2. [w EXCEPT !.stage = "confirm", !.list = "tls"] \in Wizards
    BY <1>0 DEF Wizards
  <2> QED
    BY <2>1, <2>2, AtWizardKeeps
<1>7. CASE Restart(p)
  <2> DEFINE first == IF w.type = "system" THEN "keyType" ELSE "signerType"
             v == [w EXCEPT !.stage = first]
  <2>1. AtWizard(p, v)
    BY <1>7 DEF Restart
  <2>a. first \in {"keyType", "signerType"}
    OBVIOUS
  <2> HIDE DEF first
  <2>2. v \in Wizards
    BY <1>0, <2>a DEF Wizards
  <2> QED
    BY <2>1, <2>2, AtWizardKeeps
<1>8. CASE Confirm(p)
  <2> DEFINE q == [proc[p] EXCEPT !.at = "wizardSave"]
  <2>1. proc' = [proc EXCEPT ![p] = q] /\ UNCHANGED <<file, keyFile, raced>>
    BY <1>0, <1>8 DEF Confirm
  <2>2. q \in Processes /\ q.at = "wizardSave" /\ q.cfg = proc[p].cfg
    BY <1>0 DEF Processes, Stages
  <2> HIDE DEF q
  <2>3. NamesSet(q)
    BY <2>2 DEF NamesSet
  <2> QED
    BY <1>0, <2>1, <2>2, <2>3, CommandMoves
<1>9. CASE QuitOperatorWizard(p)
  <2> DEFINE q == [AtPrompt EXCEPT !.at = "wizardReload", !.name = proc[p].name]
  <2>1. proc' = [proc EXCEPT ![p] = q] /\ UNCHANGED <<file, keyFile, raced>>
    BY <1>9 DEF QuitOperatorWizard
  <2>2. q \in Processes /\ q.at = "wizardReload" /\ q.cfg = AtPrompt.cfg
    BY <1>0, IdleProcess DEF Processes, Stages
  <2> HIDE DEF q
  <2>3. NamesSet(q)
    BY <2>2 DEF NamesSet
  <2> QED
    BY <2>1, <2>2, <2>3, IdleProcess, CommandMoves
<1>10. CASE SaveSignerConfig(p)
  <2> DEFINE cx == Named(p)
             built == buildConfig(w, cx)
  <2>1. HasNamed(p) /\ cx \in Contexts /\ SoundContext(cx, LoadConfig.cut, keyFile, raced)
        /\ proc[p].name \in Names
    BY <1>10, NamedContext DEF SaveSignerConfig
  <2>2. built \in Signers /\ Found(cx, built)
    BY <2>1, BuiltSigner
  <2>3. CASE w.type = "operator"
    <3> DEFINE new == [cx EXCEPT !.op = built]
               c == WithContext(LoadConfig, proc[p].name, new)
               q == [AtPrompt EXCEPT !.at = "saveOperator", !.name = proc[p].name, !.cfg = c]
    <3>1. proc' = [proc EXCEPT ![p] = q] /\ UNCHANGED <<file, keyFile, raced>>
      BY <1>10, <2>3 DEF SaveSignerConfig
    <3> HIDE DEF cx, built
    <3>2. new \in Contexts /\ SoundContext(new, LoadConfig.cut, keyFile, raced)
      BY <2>1, <2>2, OperatorSet
    <3> HIDE DEF new
    <3>3. c \in Copies /\ Sound(c, keyFile, raced)
      BY <2>1, <3>2, Loaded, WithContextSound
    <3> HIDE DEF c
    <3>4. q \in Processes /\ q.at = "saveOperator" /\ q.cfg = c
      BY <1>0, <3>3, IdleProcess DEF Processes, Stages
    <3> HIDE DEF q
    <3>5. NamesSet(q)
      BY <3>4 DEF NamesSet
    <3> QED
      BY <3>1, <3>3, <3>4, <3>5, CommandMoves
  <2>4. CASE w.type # "operator" /\ w.keyType = "ecdsa"
    <3> DEFINE d == [cx EXCEPT !.sys = [@ EXCEPT !.set = TRUE, !.ecdsa = built]]
    <3>1. SavingNamed(p, d)
      BY <1>10, <2>4 DEF SaveSignerConfig
    <3> HIDE DEF cx, built
    <3> DEFINE sys == [cx.sys EXCEPT !.set = TRUE, !.ecdsa = built]
    <3>2. cx.sys \in [set : BOOLEAN, ecdsa : Signers, bn254 : Signers]
      BY <2>1 DEF Contexts
    <3>3. /\ sys \in [set : BOOLEAN, ecdsa : Signers, bn254 : Signers]
          /\ sys.ecdsa = built /\ sys.bn254 = cx.sys.bn254
      BY <2>2, <3>2
    <3>4. d = [cx EXCEPT !.sys = sys]
      OBVIOUS
    <3> HIDE DEF sys, d
    <3>5. d \in Contexts /\ SoundContext(d, LoadConfig.cut, keyFile, raced)
      BY <2>1, <2>2, <3>3, <3>4, SystemSet DEF SoundContext
    <3> QED
      BY <2>1, <3>1, <3>5, SavingNamedKeeps
  <2>5. CASE w.type # "operator" /\ w.keyType # "ecdsa"
    <3> DEFINE d == [cx EXCEPT !.sys = [@ EXCEPT !.set = TRUE, !.bn254 = built]]
    <3>1. SavingNamed(p, d)
      BY <1>10, <2>5 DEF SaveSignerConfig
    <3> HIDE DEF cx, built
    <3> DEFINE sys == [cx.sys EXCEPT !.set = TRUE, !.bn254 = built]
    <3>2. cx.sys \in [set : BOOLEAN, ecdsa : Signers, bn254 : Signers]
      BY <2>1 DEF Contexts
    <3>3. /\ sys \in [set : BOOLEAN, ecdsa : Signers, bn254 : Signers]
          /\ sys.bn254 = built /\ sys.ecdsa = cx.sys.ecdsa
      BY <2>2, <3>2
    <3>4. d = [cx EXCEPT !.sys = sys]
      OBVIOUS
    <3> HIDE DEF sys, d
    <3>5. d \in Contexts /\ SoundContext(d, LoadConfig.cut, keyFile, raced)
      BY <2>1, <2>2, <3>3, <3>4, SystemSet DEF SoundContext
    <3> QED
      BY <2>1, <3>1, <3>5, SavingNamedKeeps
  <2> QED
    BY <2>3, <2>4, <2>5
<1> QED
  BY <1>1, <1>2, <1>3, <1>4, <1>5, <1>7, <1>8, <1>9, <1>10 DEF Wizard

LEMMA SignerCommandKeeps ==
    ASSUME HgctlInv, NEW p \in Procs, SignerCommand(p)
    PROVE  HgctlInv'
<1>1. PICK at \in {"signer", "wizardCheck"} :
         proc' = [proc EXCEPT ![p] = [AtPrompt EXCEPT !.at = at, !.name = getContextName]]
  BY DEF SignerCommand
<1>2. getContextName \in Names
  BY Loaded, ConfigFacts, HgctlConstants DEF getContextName
<1> DEFINE q == [AtPrompt EXCEPT !.at = at, !.name = getContextName]
<1>3. q \in Processes /\ q.at = at /\ q.cfg = AtPrompt.cfg
  BY <1>2, IdleProcess DEF Processes, Stages
<1>4. proc' = [proc EXCEPT ![p] = q] /\ UNCHANGED <<file, keyFile, raced>>
  BY <1>1 DEF SignerCommand
<1> HIDE DEF q
<1>5. NamesSet(q)
  BY <1>3 DEF NamesSet
<1> QED
  BY <1>3, <1>4, <1>5, IdleProcess, CommandMoves

LEMMA HgctlInitHolds == HgctlInit => HgctlInv
<1> SUFFICES ASSUME HgctlInit PROVE HgctlInv
  OBVIOUS
<1>1. PICK s \in Starts : file = s.file /\ keyFile = s.keys
  BY DEF HgctlInit
<1>2. proc = [p \in Procs |-> AtPrompt] /\ raced = {}
  BY DEF HgctlInit
<1>3. \A p \in Procs : proc[p] = AtPrompt
  BY <1>2
<1>4. AtPrompt \in Processes /\ Sound(AtPrompt.cfg, keyFile, raced) /\ AtPrompt.at = "idle"
  BY IdleProcess
<1>5. HgctlTypes
  BY <1>1, <1>2, <1>4, StartsAssumption DEF HgctlTypes, Files
<1>6. CopiesAreSound
  BY <1>1, <1>2, <1>3, <1>4, StartsAssumption DEF CopiesAreSound, Sound
<1>7. NamesAreSet /\ KeyWritersAreAlone
  BY <1>3, <1>4 DEF NamesAreSet, NamesSet, KeyWritersAreAlone, Writing
<1> QED
  BY <1>5, <1>6, <1>7 DEF HgctlInv

(* The file and every copy of it that a command still holds are sound, and *)
(* who writes a key file is alone at it or known to race.                  *)
THEOREM HgctlInvariant == HgctlSpec => []HgctlInv
<1>1. HgctlInit => HgctlInv
  BY HgctlInitHolds
<1>2. HgctlInv /\ [HgctlNext]_hgctlVars => HgctlInv'
  <2> SUFFICES ASSUME HgctlInv, [HgctlNext]_hgctlVars PROVE HgctlInv'
    OBVIOUS
  <2>1. CASE HgctlNext
    BY <2>1, SaveKeeps, ContextKeeps, TelemetryKeeps, KeystoreKeeps, SignerCommandKeeps,
       SignerKeysKeep, WizardKeeps
       DEF HgctlNext
  <2>2. CASE UNCHANGED hgctlVars
    <3>1. UNCHANGED <<file, keyFile, proc, raced>>
      BY <2>2 DEF hgctlVars
    <3> QED
      BY <3>1 DEF HgctlInv, HgctlTypes, CopiesAreSound, NamesAreSet, KeyWritersAreAlone, Writing,
                  KeyFiles, Paths, Types
  <2> QED
    BY <2>1, <2>2
<1> QED
  BY <1>1, <1>2, PTL DEF HgctlSpec

(* Whatever commands overlapped, died or read a truncated file, the        *)
(* current context of config.yaml is one that it holds, unless a text that *)
(* was cut or mixed was loaded and written back.                           *)
THEOREM HgctlCurrentExists == HgctlSpec => []CurrentExists
<1>1. HgctlInv => CurrentExists
  BY DEF HgctlInv, CopiesAreSound, Sound, CurrentExists
<1> QED
  BY <1>1, HgctlInvariant, PTL

(* A context signs with keystores that it lists, also when the wizard      *)
(* chose them before another command replaced the context (same proviso).  *)
THEOREM HgctlSignersAreListed == HgctlSpec => []SignersAreListed
<1>1. HgctlInv => SignersAreListed
  BY DEF HgctlInv, CopiesAreSound, Sound, SignersAreListed
<1> QED
  BY <1>1, HgctlInvariant, PTL

(* A listed keystore has its key on disk, complete, unless two commands    *)
(* created it at the same moment; also after a text was cut or mixed.      *)
THEOREM HgctlKeyLossNeedsRace == HgctlSpec => []KeyLossNeedsRace
<1>1. HgctlInv => KeyLossNeedsRace
  BY DEF HgctlInv, CopiesAreSound, Sound, KeyLossNeedsRace
<1> QED
  BY <1>1, HgctlInvariant, PTL
=============================================================================
