------------------------- MODULE ChainPollerProofs -------------------------
(***************************************************************************)
(* Proofs about ChainPoller, for any setups, heights and bounds.           *)
(***************************************************************************)
EXTENDS ChainPoller, WellFoundedInduction, TLAPS

-----------------------------------------------------------------------------
(* Block hashes and the last record *)

\* A hash is a sequence of branches, as long as its block number says.
LEMMA HashFacts ==
    ASSUME NEW h
    PROVE  h \in Hashes <=> h \in Seq(Branches) /\ Len(h) \in Numbers
<1>1. ASSUME h \in Hashes PROVE h \in Seq(Branches) /\ Len(h) \in Numbers
    <2>1. PICK n \in 1..MaxHeight : h \in [1..n -> Branches]
        BY <1>1 DEF Hashes
    <2>2. n \in Nat
        BY <2>1, PollerAssumption
    <2> QED
        BY <2>1, <2>2 DEF Numbers
<1>2. ASSUME h \in Seq(Branches), Len(h) \in Numbers PROVE h \in Hashes
    <2>1. h \in [1..Len(h) -> Branches]
        BY <1>2
    <2>2. [1..Len(h) -> Branches] \in {[1..n -> Branches] : n \in 1..MaxHeight}
        BY <1>2 DEF Numbers
    <2> QED
        BY <2>1, <2>2 DEF Hashes
<1> QED
    BY <1>1, <1>2

\* The block that the node returns for a number.
LEMMA HashAtFacts ==
    ASSUME chain \in Hashes, NEW n \in Numbers, n <= Height
    PROVE  HashAt(n) \in Hashes /\ Len(HashAt(n)) = n
<1>1. chain \in Seq(Branches) /\ n \in Nat /\ n >= 1
    BY HashFacts, PollerAssumption DEF Numbers
<1>2. HashAt(n) \in Seq(Branches) /\ Len(HashAt(n)) = n
    BY <1>1 DEF HashAt, Height
<1> QED
    BY <1>2, HashFacts

\* Numbers have a maximum.
LEMMA MaxFacts ==
    ASSUME NEW S \in SUBSET Numbers, S # {}
    PROVE  Max(S) \in S /\ \A n \in S : n <= Max(S)
<1> DEFINE T == {MaxHeight - n : n \in S}
<1>1. S \subseteq Nat /\ (\A n \in S : n <= MaxHeight) /\ MaxHeight \in Nat
    BY PollerAssumption DEF Numbers
<1>2. T \subseteq Nat /\ T # {}
    <2>1. \A n \in S : MaxHeight - n \in Nat
        BY <1>1
    <2> QED
        BY <2>1
<1> DEFINE R == {ss \in Nat \X Nat : ss[1] < ss[2]}
<1>b. IsWellFoundedOn(R, Nat)
    BY NatLessThanWellFounded, Zenon DEF OpToRel
<1> HIDE DEF R, T
<1>3. PICK m \in T : \A k \in T : <<k, m>> \notin R
    BY <1>2, <1>b, WFMin
<1>4. \A k \in T : m <= k
    <2> SUFFICES ASSUME NEW k \in T PROVE ~(k < m)
        BY <1>2
    <2>1. <<k, m>> \in Nat \X Nat /\ <<k, m>>[1] = k /\ <<k, m>>[2] = m
        BY <1>2
    <2> QED
        BY <1>3, <2>1 DEF R
<1> USE DEF T
<1>a. PICK x \in S : m = MaxHeight - x
    BY <1>3
<1>5. \A n \in S : x >= n
    <2> SUFFICES ASSUME NEW n \in S PROVE x >= n
        OBVIOUS
    <2>1. m <= MaxHeight - n
        BY <1>4
    <2> QED
        BY <1>1, <1>a, <2>1
<1>6. \E y \in S : \A n \in S : y >= n
    BY <1>5
<1>7. Max(S) \in S /\ \A n \in S : Max(S) >= n
    BY <1>6 DEF Max
<1> QED
    BY <1>1, <1>7

\* The last record, when there is one, is a stored record; in the badger store it is the
\* highest of them.
LEMMA LastFacts ==
    ASSUME TypeOK, LastFound
    PROVE  /\ LastRecord \in Hashes /\ Len(LastRecord) \in Stored
           /\ LastRecord = blocks[Len(LastRecord)]
           /\ Durable => \A n \in Stored : n <= Len(LastRecord)
           /\ ~Durable => Len(LastRecord) = lastProcessed
<1>1. Stored \in SUBSET Numbers
    BY DEF Stored
<1>2. CASE Durable
    <2>1. Stored # {} /\ LastRecord = blocks[Max(Stored)]
        BY <1>2 DEF LastFound, LastRecord
    <2>2. Max(Stored) \in Stored /\ \A n \in Stored : n <= Max(Stored)
        BY <1>1, <2>1, MaxFacts
    <2>3. Len(LastRecord) = Max(Stored)
        BY <2>1, <2>2 DEF TypeOK
    <2> QED
        BY <1>2, <2>1, <2>2, <2>3 DEF TypeOK, Stored
<1>3. CASE ~Durable
    <2>1. lastProcessed # 0 /\ LastRecord = blocks[lastProcessed] /\ LastRecord # NoBlock
        BY <1>3 DEF LastFound, LastRecord
    <2>2. lastProcessed \in Stored
        BY <2>1, PollerAssumption DEF TypeOK, Stored, Numbers
    <2> QED
        BY <1>3, <2>1, <2>2 DEF TypeOK, Stored
<1> QED
    BY <1>2, <1>3
-----------------------------------------------------------------------------
(* The inductive invariant *)

\* A poll resumes above every stored record, and from the record of its last block if that
\* one is stored; the block that it compares is the next one.
PollFits ==
    /\ pc \in {"fetch", "logs", "walk"} =>
          /\ last \in Hashes
          /\ \A n \in Stored : n <= Len(last)
          /\ blocks[Len(last)] \in {NoBlock, last}
    /\ pc \in {"logs", "walk"} => block \in Hashes /\ Len(block) = Len(last) + 1
    /\ pc = "logs" => Front(block) = last

\* The search has collected stored records, from the newest down.
SearchFits ==
    /\ pc = "walk" => /\ Len(orphans) < Len(block)
                      /\ \A k \in 1..Len(orphans) : orphans[k] = blocks[Len(block) - k]
    /\ pc = "cancel" => orphans # <<>>

\* Records above the pointer of the in-memory store are about to be deleted.
PointerFits ==
    ~Durable /\ pc \notin {"stopped", "starting"} =>
        \A n \in Stored :
            \/ n <= lastProcessed
            \/ pc = "cancel" /\ \E k \in 1..Len(orphans) : Len(orphans[k]) = n

\* A process that has not found a last record has no records.
StartFits ==
    /\ pc = "starting" => Stored = {} /\ target \in Numbers
    /\ pc = "stopped" /\ ~Durable => Stored = {}

\* A record is linked to the one below it.
Linked == \A n \in Stored : n - 1 \in Stored => Front(blocks[n]) = blocks[n - 1]

IInv == TypeOK /\ PollFits /\ SearchFits /\ PointerFits /\ StartFits /\ Linked
-----------------------------------------------------------------------------
(* Every action preserves it *)

LEMMA SetupFacts ==
    ASSUME TypeOK
    PROVE  /\ setup.durable \in BOOLEAN /\ setup.top \in Nat /\ setup.top <= MaxHeight
           /\ setup.reorgs \in Nat /\ setup.crashes \in Nat
           /\ setup.maxReorgDepth \in Nat \ {0} /\ setup.blockHistorySize \in Nat \ {0}
<1>1. setup \in SetupType
    BY PollerAssumption DEF TypeOK
<1>2. setup.top \in StartHeight..MaxHeight /\ setup.reorgs \in 0..MaxReorgs
    BY <1>1 DEF SetupType
<1>3. setup.top \in Nat /\ setup.top <= MaxHeight /\ setup.reorgs \in Nat
    BY <1>2, PollerAssumption
<1> QED
    BY <1>1, <1>3 DEF SetupType

\* Only the chain and the block contexts move.
LEMMA ChainMoves ==
    ASSUME IInv, chain' \in Hashes, branch' \in Branches, reorgs' \in 0..setup.reorgs,
           contexts' \in [Numbers -> SUBSET Hashes], forgotten' \subseteq Hashes,
           UNCHANGED <<setup, crashes, storeVars, pollerVars>>
    PROVE  IInv'
<1>1. Stored' = Stored /\ Durable' = Durable
    BY DEF Stored, Durable, storeVars
<1>2. TypeOK'
    BY <1>1 DEF IInv, TypeOK, storeVars, pollerVars
<1>3. PollFits' /\ SearchFits' /\ PointerFits' /\ StartFits' /\ Linked'
    BY <1>1 DEF IInv, PollFits, SearchFits, PointerFits, StartFits, Linked, storeVars, pollerVars
<1> QED
    BY <1>2, <1>3 DEF IInv

LEMMA GrowIInv == ASSUME IInv, Grow PROVE IInv'
<1>1. chain \in Seq(Branches) /\ Len(chain) \in Numbers /\ branch \in Branches
    BY HashFacts DEF IInv, TypeOK
<1>2. Len(chain) < setup.top /\ setup.top \in Nat /\ setup.top <= MaxHeight /\ MaxHeight \in Nat
    BY SetupFacts, PollerAssumption DEF IInv, Grow, Height
<1>3. chain' = Append(chain, branch)
    BY DEF Grow
<1>4. chain' \in Seq(Branches) /\ Len(chain') = Len(chain) + 1
    BY <1>1, <1>3
<1>5. Len(chain') \in Numbers
    BY <1>1, <1>2, <1>4 DEF Numbers
<1>6. chain' \in Hashes
    BY <1>4, <1>5, HashFacts
<1> QED
    BY <1>6, ChainMoves DEF contextVars, Grow, IInv, TypeOK

LEMMA ReorgIInv ==
    ASSUME IInv, NEW fork \in Numbers, NEW height \in Numbers, NEW b \in Branches,
           Reorg(fork, height, b)
    PROVE  IInv'
<1>1. chain \in Seq(Branches) /\ fork \in Nat /\ height \in Nat /\ fork < Len(chain)
    BY HashFacts, PollerAssumption DEF IInv, TypeOK, Numbers, Reorg, Height
<1>2. chain' = [n \in 1..height |-> IF n <= fork THEN chain[n] ELSE b]
    BY DEF Reorg
<1>3. \A n \in 1..height : n <= fork => chain[n] \in Branches
    BY <1>1
<1>4. chain' \in [1..height -> Branches]
    BY <1>2, <1>3
<1>5. chain' \in Seq(Branches) /\ Len(chain') = height
    BY <1>1, <1>4
<1>6. chain' \in Hashes
    BY <1>5, HashFacts
<1>7. reorgs' \in 0..setup.reorgs
    <2>1. reorgs \in 0..setup.reorgs /\ reorgs < setup.reorgs /\ reorgs' = reorgs + 1
        BY DEF IInv, TypeOK, Reorg
    <2>2. setup.reorgs \in Nat
        BY SetupFacts DEF IInv
    <2> QED
        BY <2>1, <2>2
<1> QED
    BY <1>6, <1>7, ChainMoves DEF contextVars, Reorg, IInv, TypeOK

\* The recovered contexts hold stored tasks.
LEMMA RecoverType ==
    ASSUME TypeOK, RecoverContexts
    PROVE  contexts' \in [Numbers -> SUBSET Hashes]
<1>1. PICK pending \in ListPendingTasksForAVS : contexts' = [n \in Numbers |-> tasks[n] \cap pending]
    BY DEF RecoverContexts
<1>2. \A n \in Numbers : tasks[n] \cap pending \in SUBSET Hashes
    BY DEF TypeOK
<1> QED
    BY <1>1, <1>2

LEMMA StartIInv == ASSUME IInv, Start PROVE IInv'
<1>a. TypeOK /\ Stored' = Stored /\ Durable' = Durable /\ UNCHANGED <<chainVars, storeVars, forgotten, last, block, orphans>>
    BY DEF IInv, Start, Stored, Durable, chainVars, storeVars
<1>b. chain \in Seq(Branches) /\ Len(chain) \in Numbers
    BY <1>a, HashFacts DEF TypeOK
<1>1. CASE LastFound
    <2>1. RecoverContexts /\ pc = "stopped" /\ pc' = "idle" /\ target' = target
        BY <1>1 DEF Start
    <2>2. contexts' \in [Numbers -> SUBSET Hashes]
        BY <1>a, <2>1, RecoverType
    <2>3. TypeOK'
        BY <1>a, <2>1, <2>2 DEF TypeOK, chainVars, storeVars
    <2>4. PollFits' /\ SearchFits' /\ StartFits' /\ Linked'
        BY <1>a, <2>1 DEF IInv, PollFits, SearchFits, StartFits, Linked, chainVars, storeVars
    <2>5. PointerFits'
        BY <1>a, <2>1 DEF IInv, StartFits, PointerFits
    <2> QED
        BY <2>3, <2>4, <2>5 DEF IInv
<1>2. CASE ~LastFound
    <2>1. target' = Height /\ pc = "stopped" /\ pc' = "starting" /\ contexts' = contexts
        BY <1>2 DEF Start
    <2>2. target' \in Numbers /\ target' \in 0..MaxHeight
        BY <1>b, <2>1, PollerAssumption DEF Height, Numbers
    <2>3. Stored = {}
        <3>1. CASE Durable
            <4>1. ASSUME Stored # {} PROVE FALSE
                <5>1. Max(Stored) \in Stored
                    BY <4>1, MaxFacts DEF Stored
                <5> QED
                    BY <1>2, <3>1, <4>1, <5>1 DEF LastFound, LastRecord, Stored
            <4> QED
                BY <4>1
        <3>2. CASE ~Durable
            BY <2>1, <3>2 DEF IInv, StartFits
        <3> QED
            BY <3>1, <3>2
    <2>4. TypeOK'
        BY <1>a, <2>1, <2>2 DEF TypeOK, chainVars, storeVars
    <2>5. PollFits' /\ SearchFits' /\ PointerFits' /\ StartFits' /\ Linked'
        BY <1>a, <2>1, <2>2, <2>3
        DEF IInv, PollFits, SearchFits, PointerFits, StartFits, Linked, chainVars, storeVars
    <2> QED
        BY <2>4, <2>5 DEF IInv
<1> QED
    BY <1>1, <1>2

\* One record is written.
LEMMA SaveFacts ==
    ASSUME TypeOK, NEW h \in Hashes, SaveBlock(h), setup' = setup
    PROVE  /\ blocks' \in [Numbers -> Hashes \cup {NoBlock}]
           /\ lastProcessed' \in 0..MaxHeight
           /\ blocks'[Len(h)] = h /\ Len(h) \in Numbers
           /\ \A n \in Numbers : n # Len(h) => blocks'[n] = blocks[n]
           /\ Stored' = Stored \cup {Len(h)}
           /\ \A n \in Stored' : Len(blocks'[n]) = n
           /\ ~Durable => lastProcessed' = Len(h)
<1>1. Len(h) \in Numbers /\ h # NoBlock
    BY HashFacts, PollerAssumption DEF Numbers, NoBlock
<1>2. blocks \in [Numbers -> Hashes \cup {NoBlock}] /\ blocks' = [blocks EXCEPT ![Len(h)] = h]
    BY DEF TypeOK, SaveBlock
<1>3. /\ blocks' \in [Numbers -> Hashes \cup {NoBlock}] /\ blocks'[Len(h)] = h
      /\ \A n \in Numbers : n # Len(h) => blocks'[n] = blocks[n]
    BY <1>1, <1>2
<1>4. Stored' = Stored \cup {Len(h)}
    BY <1>1, <1>3 DEF Stored
<1>5. \A n \in Stored' : Len(blocks'[n]) = n
    BY <1>3, <1>4 DEF TypeOK, Stored
<1>6. lastProcessed' \in 0..MaxHeight /\ (~Durable => lastProcessed' = Len(h))
    BY <1>1, PollerAssumption DEF SaveBlock, PointTo, TypeOK, Numbers
<1> QED
    BY <1>1, <1>3, <1>4, <1>5, <1>6

LEMMA StartFromLatestIInv == ASSUME IInv, StartFromLatest PROVE IInv'
<1>a. /\ TypeOK /\ UNCHANGED <<chainVars, strays, tasks, forgotten, last, target, block, orphans>>
      /\ Stored = {} /\ target \in Numbers /\ Durable' = Durable /\ setup' = setup
    BY DEF IInv, StartFromLatest, StartFits, Durable, chainVars
<1>1. CASE target <= Height
    <2>1. SaveBlock(HashAt(target)) /\ RecoverContexts /\ pc' = "idle"
        BY <1>1 DEF StartFromLatest
    <2> DEFINE h == HashAt(target)
    <2>2. h \in Hashes /\ Len(h) = target
        BY <1>1, <1>a, HashAtFacts DEF TypeOK
    <2> HIDE DEF h
    <2>3. /\ blocks' \in [Numbers -> Hashes \cup {NoBlock}]
          /\ lastProcessed' \in 0..MaxHeight
          /\ Stored' = Stored \cup {Len(h)}
          /\ \A n \in Stored' : Len(blocks'[n]) = n
          /\ ~Durable => lastProcessed' = Len(h)
        BY <1>a, <2>1, <2>2, SaveFacts DEF h
    <2>4. contexts' \in [Numbers -> SUBSET Hashes]
        BY <1>a, <2>1, RecoverType
    <2>5. TypeOK'
        BY <1>a, <2>1, <2>3, <2>4 DEF TypeOK, chainVars
    <2>6. Stored' = {target} /\ target \in Nat
        BY <1>a, <2>2, <2>3, PollerAssumption DEF Numbers
    <2>7. Linked'
        BY <2>6 DEF Linked
    <2>8. PointerFits'
        BY <1>a, <2>1, <2>2, <2>3, <2>6 DEF PointerFits
    <2>9. PollFits' /\ SearchFits' /\ StartFits'
        BY <2>1 DEF PollFits, SearchFits, StartFits
    <2> QED
        BY <2>5, <2>7, <2>8, <2>9 DEF IInv
<1>2. CASE ~(target <= Height)
    <2>1. pc' = "stopped" /\ UNCHANGED <<blocks, lastProcessed, contexts>>
        BY <1>2 DEF StartFromLatest
    <2>2. Stored' = {}
        BY <1>a, <2>1 DEF Stored
    <2>3. TypeOK'
        BY <1>a, <2>1, <2>2 DEF TypeOK, chainVars
    <2>4. PollFits' /\ SearchFits' /\ PointerFits' /\ StartFits' /\ Linked'
        BY <2>1, <2>2 DEF PollFits, SearchFits, PointerFits, StartFits, Linked
    <2> QED
        BY <2>3, <2>4 DEF IInv
<1> QED
    BY <1>1, <1>2

\* Between two steps of a poll the store does not change.
LEMMA StoreKept ==
    ASSUME IInv, UNCHANGED <<chainVars, storeVars, contextVars>>,
           last' \in Hashes \cup {NoBlock}, block' \in Hashes \cup {NoBlock}, target' \in 0..MaxHeight,
           orphans' \in Seq(Hashes),
           pc' \in {"idle", "fetch", "logs", "walk"}, pc \in {"idle", "fetch", "logs", "walk"}
    PROVE  /\ TypeOK' /\ PointerFits' /\ StartFits' /\ Linked'
           /\ Stored' = Stored /\ blocks' = blocks
<1>1. Stored' = Stored /\ Durable' = Durable /\ blocks' = blocks
    BY DEF Stored, Durable, storeVars, chainVars
<1>2. TypeOK'
    BY <1>1 DEF contextVars, IInv, TypeOK, chainVars, storeVars
<1>3. PointerFits' /\ StartFits' /\ Linked'
    BY <1>1 DEF IInv, PointerFits, StartFits, Linked, chainVars, storeVars
<1> QED
    BY <1>1, <1>2, <1>3

LEMMA PollIInv == ASSUME IInv, Poll PROVE IInv'
<1>1. /\ LastRecord \in Hashes /\ Len(LastRecord) \in Stored
      /\ LastRecord = blocks[Len(LastRecord)]
      /\ Durable => \A n \in Stored : n <= Len(LastRecord)
      /\ ~Durable => Len(LastRecord) = lastProcessed
    BY LastFacts DEF IInv, Poll
<1>2. \A n \in Stored : n <= Len(LastRecord)
    BY <1>1 DEF IInv, PointerFits, Poll
<1>3. chain \in Seq(Branches) /\ Len(chain) \in Numbers
    BY HashFacts DEF IInv, TypeOK
<1>4. Height \in 0..MaxHeight
    BY <1>3, PollerAssumption DEF Height, Numbers
<1>5. /\ pc = "idle" /\ pc' = "fetch" /\ last' = LastRecord /\ target' = Height
      /\ UNCHANGED <<chainVars, storeVars, contextVars, block, orphans>>
    BY DEF Poll
<1>6. block \in Hashes \cup {NoBlock} /\ orphans \in Seq(Hashes)
    BY DEF IInv, TypeOK
<1>7. TypeOK' /\ PointerFits' /\ StartFits' /\ Linked' /\ Stored' = Stored /\ blocks' = blocks
    BY <1>1, <1>4, <1>5, <1>6, StoreKept
<1>8. PollFits' /\ SearchFits'
    BY <1>1, <1>2, <1>5, <1>7 DEF PollFits, SearchFits
<1> QED
    BY <1>7, <1>8 DEF IInv

LEMMA FetchIInv == ASSUME IInv, FetchBlock PROVE IInv'
<1>1. /\ pc = "fetch" /\ block' = HashAt(Len(last) + 1) /\ Len(last) < Height
      /\ pc' = IF Front(block') = last THEN "logs" ELSE "walk"
      /\ orphans' = <<>> /\ UNCHANGED <<chainVars, storeVars, contextVars, last, target>>
    BY DEF FetchBlock
<1>2. last \in Hashes /\ Len(last) \in Numbers /\ Len(chain) \in Numbers
    BY <1>1, HashFacts DEF IInv, PollFits, TypeOK
<1>3. Len(last) + 1 \in Numbers /\ Len(last) + 1 <= Height
    BY <1>1, <1>2, PollerAssumption DEF Height, Numbers
<1>4. block' \in Hashes /\ Len(block') = Len(last) + 1
    BY <1>1, <1>3, HashAtFacts DEF IInv, TypeOK
<1>5. <<>> \in Seq(Hashes)
    OBVIOUS
<1>6. target \in 0..MaxHeight
    BY DEF IInv, TypeOK
<1>7. TypeOK' /\ PointerFits' /\ StartFits' /\ Linked' /\ Stored' = Stored /\ blocks' = blocks
    BY <1>1, <1>2, <1>4, <1>5, <1>6, StoreKept
<1>8. PollFits'
    BY <1>1, <1>4, <1>7 DEF IInv, PollFits
<1>9. SearchFits'
    <2>1. Len(orphans') = 0 /\ Len(block') > 0
        BY <1>1, <1>2, <1>4, PollerAssumption DEF Numbers
    <2> QED
        BY <1>1, <2>1 DEF SearchFits
<1> QED
    BY <1>7, <1>8, <1>9 DEF IInv

LEMMA BackToIdle ==
    ASSUME IInv, pc \in {"fetch", "logs", "walk"}, pc' = "idle",
           UNCHANGED <<chainVars, storeVars, contextVars, last, target, block, orphans>>
    PROVE  IInv'
<1>1. /\ last \in Hashes \cup {NoBlock} /\ block \in Hashes \cup {NoBlock} /\ target \in 0..MaxHeight
      /\ orphans \in Seq(Hashes)
    BY DEF IInv, TypeOK
<1>2. TypeOK' /\ PointerFits' /\ StartFits' /\ Linked'
    BY <1>1, StoreKept
<1>3. PollFits' /\ SearchFits'
    BY DEF PollFits, SearchFits
<1> QED
    BY <1>2, <1>3 DEF IInv
\* What the block's logs add to its context and to its tasks.
LEMMA LogsType ==
    ASSUME TypeOK, NEW n \in Numbers, NEW created \in SUBSET Hashes
    PROVE  /\ [contexts EXCEPT ![n] = @ \cup created] \in [Numbers -> SUBSET Hashes]
           /\ [tasks EXCEPT ![n] = @ \cup created] \in [Numbers -> SUBSET Hashes]
<1>1. contexts[n] \cup created \in SUBSET Hashes /\ tasks[n] \cup created \in SUBSET Hashes
    BY DEF TypeOK
<1> QED
    BY <1>1 DEF TypeOK

\* A block is saved, one leaves the history, or only one of the two happens.
LEMMA PruneFacts ==
    ASSUME TypeOK, NEW h \in Hashes, NEW saved \in BOOLEAN, NEW pruned \in BOOLEAN,
           SaveBlockAndPrune(h, saved, pruned), setup' = setup
    PROVE  /\ blocks' \in [Numbers -> Hashes \cup {NoBlock}]
           /\ blocks'[Len(h)] = IF saved THEN h ELSE blocks[Len(h)]
           /\ \A n \in Numbers : n # Len(h) => blocks'[n] \in {blocks[n], NoBlock}
           /\ lastProcessed' \in 0..MaxHeight
           /\ saved /\ ~Durable => lastProcessed' = Len(h)
           /\ ~saved => lastProcessed' = lastProcessed
<1>1. Len(h) \in Numbers /\ Len(h) \in Nat
    BY HashFacts, PollerAssumption DEF Numbers
<1>2. BlockHistorySize \in Nat \ {0}
    BY SetupFacts DEF BlockHistorySize
<1>3. Len(h) - BlockHistorySize # Len(h)
    BY <1>1, <1>2
<1> DEFINE v(n) == CASE n = Len(h) /\ saved                     -> h
                     [] n = Len(h) - BlockHistorySize /\ pruned -> NoBlock
                     [] OTHER                                   -> blocks[n]
<1>4. blocks' = [n \in Numbers |-> v(n)]
    BY DEF SaveBlockAndPrune
<1>5. v(Len(h)) = IF saved THEN h ELSE blocks[Len(h)]
    BY <1>3
<1>6. \A n \in Numbers : n # Len(h) => v(n) \in {blocks[n], NoBlock}
    OBVIOUS
<1>7. \A n \in Numbers : blocks[n] \in Hashes \cup {NoBlock}
    BY DEF TypeOK
<1> HIDE DEF v
<1>8. \A n \in Numbers : v(n) \in Hashes \cup {NoBlock}
    BY <1>5, <1>6, <1>7
<1>9. /\ lastProcessed' \in 0..MaxHeight
      /\ saved /\ ~Durable => lastProcessed' = Len(h)
      /\ ~saved => lastProcessed' = lastProcessed
    BY <1>1, PollerAssumption DEF SaveBlockAndPrune, PointTo, TypeOK, Numbers
<1> QED
    BY <1>1, <1>4, <1>5, <1>6, <1>8, <1>9

LEMMA LogsIInv == ASSUME IInv, HandleLogs PROVE IInv'
<1> DEFINE n == Len(block)
           created == IF n <= Height THEN {HashAt(n)} ELSE {}
<1>a. /\ TypeOK /\ pc = "logs" /\ setup' = setup
      /\ UNCHANGED <<chainVars, strays, forgotten, target, block, orphans>>
    BY DEF IInv, HandleLogs, chainVars
<1>b. /\ last \in Hashes /\ block \in Hashes /\ n = Len(last) + 1 /\ Front(block) = last
      /\ blocks[Len(last)] \in {NoBlock, last} /\ \A m \in Stored : m <= Len(last)
    BY <1>a DEF IInv, PollFits
<1>c. n \in Numbers /\ n \in Nat /\ Len(last) \in Numbers /\ Len(last) \in Nat
    BY <1>b, HashFacts, PollerAssumption DEF Numbers
<1>1. created \in SUBSET Hashes
    BY <1>a, <1>c, HashAtFacts DEF TypeOK
<1>2. contexts' = [contexts EXCEPT ![n] = @ \cup created] /\ tasks' = [tasks EXCEPT ![n] = @ \cup created]
    BY DEF HandleLogs, SavePendingTask
<1> HIDE DEF created
<1>3. contexts' \in [Numbers -> SUBSET Hashes] /\ tasks' \in [Numbers -> SUBSET Hashes]
    BY <1>1, <1>2, <1>a, <1>c, LogsType
<1>4. PICK saved \in BOOLEAN, pruned \in BOOLEAN : SaveBlockAndPrune(block, saved, pruned)
    BY DEF HandleLogs
<1>5. /\ blocks' \in [Numbers -> Hashes \cup {NoBlock}]
      /\ blocks'[n] = IF saved THEN block ELSE blocks[n]
      /\ \A m \in Numbers : m # n => blocks'[m] \in {blocks[m], NoBlock}
      /\ lastProcessed' \in 0..MaxHeight
      /\ saved /\ ~Durable => lastProcessed' = n
      /\ ~saved => lastProcessed' = lastProcessed
    BY <1>4, <1>a, <1>b, PruneFacts
<1>6. pc' \in {"idle", "fetch"} /\ last' = block
    BY DEF HandleLogs
<1>7. n \notin Stored /\ blocks[n] = NoBlock
    BY <1>b, <1>c DEF Stored
<1>8. block # NoBlock
    BY <1>b, <1>c DEF NoBlock
<1> HIDE DEF n
<1>9. ASSUME NEW m \in Stored'
      PROVE  (m \in Stored /\ m # n /\ blocks'[m] = blocks[m]) \/ (m = n /\ saved /\ blocks'[m] = block)
    BY <1>5, <1>7 DEF Stored
<1>10. \A m \in Stored' : Len(blocks'[m]) = m
    BY <1>9, <1>a DEF TypeOK, n
<1>11. TypeOK'
    BY <1>3, <1>5, <1>6, <1>10, <1>a, <1>b DEF TypeOK, chainVars
<1>12. \A m \in Stored' : m <= n
    BY <1>9, <1>b, <1>c DEF Stored, Numbers
<1>13. PollFits'
    <2>1. blocks'[n] \in {NoBlock, block}
        BY <1>5, <1>7
    <2> QED
        BY <1>6, <1>12, <1>a, <1>b, <2>1 DEF PollFits, n
<1>14. SearchFits' /\ StartFits'
    BY <1>6 DEF SearchFits, StartFits
<1>15. PointerFits'
    <2> SUFFICES ASSUME ~Durable', NEW m \in Stored' PROVE m <= lastProcessed'
        BY DEF PointerFits
    <2>1. ~Durable /\ (m \in Stored => m <= lastProcessed)
        BY <1>a DEF IInv, PointerFits, Durable
    <2>2. CASE saved
        BY <1>5, <1>12, <2>1, <2>2
    <2>3. CASE ~saved
        BY <1>5, <1>9, <2>1, <2>3
    <2> QED
        BY <2>2, <2>3
<1>16. Linked'
    <2> SUFFICES ASSUME NEW m \in Stored', m - 1 \in Stored' PROVE Front(blocks'[m]) = blocks'[m - 1]
        BY DEF Linked
    <2>1. m - 1 # n
        BY <1>12, <1>c DEF Stored, Numbers
    <2>2. m - 1 \in Stored /\ blocks'[m - 1] = blocks[m - 1]
        BY <1>9, <2>1
    <2>3. CASE m = n
        <3>1. m - 1 = Len(last) /\ blocks'[m] = block
            BY <1>9, <1>7, <1>b, <1>c, <2>3 DEF n
        <3>2. blocks[m - 1] = last
            BY <1>b, <2>2, <3>1 DEF Stored
        <3> QED
            BY <1>b, <2>2, <3>1, <3>2
    <2>4. CASE m # n
        BY <1>9, <2>2, <2>4 DEF IInv, Linked
    <2> QED
        BY <2>3, <2>4
<1> QED
    BY <1>11, <1>13, <1>14, <1>15, <1>16 DEF IInv

LEMMA QueueIInv == ASSUME IInv, QueueFails PROVE IInv'
<1> DEFINE n == Len(block)
<1>1. /\ TypeOK /\ pc = "logs" /\ pc' = "idle"
      /\ UNCHANGED <<chainVars, blocks, lastProcessed, strays, forgotten, last, target, block, orphans>>
    BY DEF IInv, QueueFails
<1>2. block \in Hashes /\ n \in Numbers /\ n <= Height
    BY <1>1, HashFacts DEF IInv, PollFits, QueueFails
<1>3. {HashAt(n)} \in SUBSET Hashes
    BY <1>1, <1>2, HashAtFacts DEF TypeOK
<1>4. contexts' \in [Numbers -> SUBSET Hashes]
    BY <1>1, <1>2, <1>3, LogsType DEF QueueFails
<1>5. tasks' \in [Numbers -> SUBSET Hashes]
    <2>1. tasks' = [tasks EXCEPT ![n] = @ \cup {HashAt(n)}] \/ tasks' = tasks
        BY DEF QueueFails, SavePendingTask
    <2>2. [tasks EXCEPT ![n] = @ \cup {HashAt(n)}] \in [Numbers -> SUBSET Hashes]
        BY <1>1, <1>2, <1>3, LogsType
    <2>3. tasks \in [Numbers -> SUBSET Hashes]
        BY <1>1 DEF TypeOK
    <2> QED
        BY <2>1, <2>2, <2>3
<1>6. Stored' = Stored /\ Durable' = Durable
    BY <1>1 DEF Stored, Durable, chainVars
<1>7. TypeOK'
    BY <1>1, <1>4, <1>5, <1>6 DEF TypeOK, chainVars
<1>8. PollFits' /\ SearchFits' /\ PointerFits' /\ StartFits' /\ Linked'
    BY <1>1, <1>6 DEF IInv, PollFits, SearchFits, PointerFits, StartFits, Linked
<1> QED
    BY <1>7, <1>8 DEF IInv

\* The parent that the search looks at.
LEMMA ParentFacts ==
    ASSUME IInv, pc = "walk"
    PROVE  /\ TypeOK /\ block \in Hashes /\ last \in Hashes /\ orphans \in Seq(Hashes)
           /\ Len(orphans) \in Nat /\ Len(block) \in Numbers /\ Len(block) \in Nat
           /\ Len(last) = Len(block) - 1 /\ ParentNumber \in Nat
           /\ ParentNumber + Len(orphans) + 1 = Len(block)
           /\ ParentNumber # 0 => ParentNumber \in Numbers
           /\ \A n \in Stored : n < Len(block)
<1>1. /\ TypeOK /\ block \in Hashes /\ last \in Hashes /\ orphans \in Seq(Hashes)
      /\ Len(block) = Len(last) + 1 /\ Len(orphans) < Len(block) /\ \A n \in Stored : n <= Len(last)
    BY DEF IInv, TypeOK, PollFits, SearchFits
<1>2. Len(orphans) \in Nat /\ Len(block) \in Numbers /\ Len(block) \in Nat /\ Len(last) \in Nat
    BY <1>1, HashFacts, PollerAssumption DEF Numbers
<1>3. Len(last) = Len(block) - 1
    BY <1>1, <1>2
<1>4. ParentNumber \in Nat /\ ParentNumber + Len(orphans) + 1 = Len(block) /\ ParentNumber <= Len(block)
    BY <1>1, <1>2 DEF ParentNumber
<1>5. ParentNumber # 0 => ParentNumber \in Numbers
    BY <1>2, <1>4, PollerAssumption DEF Numbers
<1>6. \A n \in Stored : n < Len(block)
    BY <1>1, <1>2, PollerAssumption DEF Stored, Numbers
<1> QED
    BY <1>1, <1>2, <1>3, <1>4, <1>5, <1>6

LEMMA FindOrphanIInv == ASSUME IInv, FindOrphan PROVE IInv'
<1> DEFINE p == ParentNumber
<1>1. /\ pc = "walk" /\ p # 0 /\ orphans' = Append(orphans, blocks[p]) /\ blocks[p] # NoBlock
      /\ UNCHANGED <<chainVars, storeVars, contextVars, pc, last, target, block>>
    BY DEF FindOrphan, SearchExhausted, GetBlock
<1>2. /\ TypeOK /\ block \in Hashes /\ last \in Hashes /\ orphans \in Seq(Hashes)
      /\ Len(orphans) \in Nat /\ Len(block) \in Nat /\ p \in Nat /\ p \in Numbers
      /\ p + Len(orphans) + 1 = Len(block)
    BY <1>1, ParentFacts
<1> HIDE DEF p
<1>3. blocks[p] \in Hashes
    BY <1>1, <1>2 DEF TypeOK
<1>4. /\ orphans' \in Seq(Hashes) /\ Len(orphans') = Len(orphans) + 1
      /\ orphans'[Len(orphans) + 1] = blocks[p]
      /\ \A k \in 1..Len(orphans) : orphans'[k] = orphans[k]
    BY <1>1, <1>2, <1>3
<1>5. target \in 0..MaxHeight
    BY <1>2 DEF TypeOK
<1>6. TypeOK' /\ PointerFits' /\ StartFits' /\ Linked' /\ Stored' = Stored /\ blocks' = blocks
    BY <1>1, <1>2, <1>4, <1>5, StoreKept
<1>7. PollFits'
    BY <1>1, <1>6 DEF IInv, PollFits
<1>8. Len(orphans') < Len(block)
    BY <1>1, <1>2, <1>4, PollerAssumption DEF Numbers
<1>9. \A k \in 1..Len(orphans') : orphans'[k] = blocks[Len(block) - k]
    <2> SUFFICES ASSUME NEW k \in 1..Len(orphans') PROVE orphans'[k] = blocks[Len(block) - k]
        OBVIOUS
    <2>1. CASE k = Len(orphans) + 1
        <3>1. Len(block) - k = p
            BY <1>2, <2>1
        <3> QED
            BY <1>4, <2>1, <3>1
    <2>2. CASE k # Len(orphans) + 1
        <3>1. k \in 1..Len(orphans)
            BY <1>2, <1>4, <2>2
        <3> QED
            BY <1>1, <1>4, <3>1 DEF IInv, SearchFits
    <2> QED
        BY <2>1, <2>2
<1>10. SearchFits'
    BY <1>1, <1>6, <1>8, <1>9 DEF SearchFits
<1> QED
    BY <1>6, <1>7, <1>10 DEF IInv

\* A record that is saved again where it is.
LEMMA SavedAgain ==
    ASSUME TypeOK, NEW n \in Stored, SaveBlock(blocks[n]), setup' = setup
    PROVE  /\ blocks' = blocks /\ Stored' = Stored /\ lastProcessed' \in 0..MaxHeight
           /\ ~Durable => lastProcessed' = n
<1>1. blocks[n] \in Hashes /\ Len(blocks[n]) = n /\ n \in Numbers
    BY DEF TypeOK, Stored
<1>2. blocks' = blocks
    BY <1>1 DEF SaveBlock, TypeOK
<1>3. lastProcessed' \in 0..MaxHeight /\ (~Durable => lastProcessed' = n)
    BY <1>1, SaveFacts
<1> QED
    BY <1>2, <1>3 DEF Stored

\* The search is over: what it found is cancelled next, if there is anything.
LEMMA SearchOver ==
    ASSUME IInv, pc = "walk", pc' = AfterSearch, blocks' = blocks, lastProcessed' \in 0..MaxHeight,
           strays' \subseteq Hashes,
           UNCHANGED <<chainVars, tasks, contextVars, last, target, block, orphans>>,
           ~Durable => \A n \in Stored :
               n <= lastProcessed' \/ \E k \in 1..Len(orphans) : n = Len(block) - k
    PROVE  IInv'
<1>1. Stored' = Stored /\ Durable' = Durable /\ TypeOK
    BY DEF Stored, Durable, chainVars, IInv
<1>2. pc' \in {"idle", "cancel"} /\ (orphans = <<>> => pc' = "idle") /\ (pc' = "cancel" => orphans # <<>>)
    BY DEF AfterSearch
<1>3. TypeOK'
    BY <1>1, <1>2 DEF contextVars, TypeOK, chainVars
<1>4. PollFits' /\ SearchFits' /\ StartFits'
    BY <1>2 DEF PollFits, SearchFits, StartFits
<1>5. Linked'
    BY <1>1 DEF IInv, Linked
<1>6. PointerFits'
    <2> SUFFICES ASSUME ~Durable, NEW n \in Stored, ~(n <= lastProcessed')
                 PROVE  pc' = "cancel" /\ \E k \in 1..Len(orphans) : Len(orphans[k]) = n
        BY <1>1 DEF PointerFits
    <2>1. PICK k \in 1..Len(orphans) : n = Len(block) - k
        OBVIOUS
    <2>2. orphans[k] = blocks[n]
        BY <2>1 DEF IInv, SearchFits
    <2>3. Len(orphans[k]) = n
        BY <1>1, <2>2 DEF TypeOK
    <2>4. orphans # <<>>
        BY <2>1
    <2> QED
        BY <2>1, <2>3, <2>4 DEF AfterSearch
<1> QED
    BY <1>3, <1>4, <1>5, <1>6 DEF IInv
LEMMA ForkPointIInv == ASSUME IInv, FindForkPoint PROVE IInv'
<1> DEFINE p == ParentNumber
<1>1. /\ pc = "walk" /\ p # 0 /\ blocks[p] = HashAt(p) /\ p <= Height /\ SaveBlock(blocks[p])
      /\ pc' = AfterSearch /\ setup' = setup
      /\ UNCHANGED <<chainVars, strays, tasks, contextVars, last, target, block, orphans>>
    BY DEF FindForkPoint, SearchExhausted, GetBlock, chainVars
<1>2. /\ TypeOK /\ Len(orphans) \in Nat /\ Len(block) \in Nat /\ p \in Nat /\ p \in Numbers
      /\ p + Len(orphans) + 1 = Len(block) /\ \A n \in Stored : n < Len(block)
    BY <1>1, ParentFacts
<1>3. p \in Stored
    <2>1. blocks[p] \in Hashes
        BY <1>1, <1>2, HashAtFacts DEF TypeOK
    <2>2. blocks[p] # NoBlock
        BY <2>1, HashFacts, PollerAssumption DEF NoBlock, Numbers
    <2> QED
        BY <1>2, <2>2 DEF Stored
<1> HIDE DEF p
<1>4. blocks' = blocks /\ lastProcessed' \in 0..MaxHeight /\ (~Durable => lastProcessed' = p)
    BY <1>1, <1>2, <1>3, SavedAgain
<1>5. ASSUME NEW n \in Stored, ~(n <= p) PROVE \E k \in 1..Len(orphans) : n = Len(block) - k
    <2>1. n \in Nat /\ n < Len(block)
        BY <1>2, PollerAssumption DEF Stored, Numbers
    <2>2. Len(block) - n \in 1..Len(orphans) /\ n = Len(block) - (Len(block) - n)
        BY <1>2, <1>5, <2>1
    <2> QED
        BY <2>2
<1>6. strays' \subseteq Hashes
    BY <1>1, <1>2 DEF TypeOK
<1> QED
    BY <1>1, <1>4, <1>5, <1>6, SearchOver

LEMMA UnknownParentIInv == ASSUME IInv, FindUnknownParent PROVE IInv'
<1> DEFINE p == ParentNumber
<1>1. /\ pc = "walk" /\ p # 0 /\ p <= Height
      /\ strays' = strays \cup {HashAt(p)} /\ pc' = AfterSearch
      /\ UNCHANGED <<chainVars, blocks, lastProcessed, tasks, contextVars, last, target, block, orphans>>
    BY DEF FindUnknownParent, SearchExhausted
<1>2. TypeOK /\ p \in Numbers
    BY <1>1, ParentFacts
<1>3. strays' \subseteq Hashes
    BY <1>1, <1>2, HashAtFacts DEF TypeOK
<1>4. lastProcessed' \in 0..MaxHeight
    BY <1>1, <1>2 DEF TypeOK
<1>5. ~Durable => \A n \in Stored : n <= lastProcessed'
    BY <1>1 DEF IInv, PointerFits
<1> QED
    BY <1>1, <1>3, <1>4, <1>5, SearchOver

LEMMA SearchEndsIInv == ASSUME IInv, SearchEnds PROVE IInv'
<1>1. /\ pc = "walk" /\ pc' = AfterSearch /\ setup' = setup
      /\ UNCHANGED <<chainVars, strays, tasks, contextVars, last, target, block, orphans>>
    BY DEF SearchEnds, chainVars
<1>2. /\ TypeOK /\ orphans \in Seq(Hashes) /\ Len(orphans) \in Nat /\ Len(block) \in Nat
      /\ Len(orphans) < Len(block) /\ Len(block) <= MaxHeight /\ MaxHeight \in Nat
      /\ \A n \in Stored : n < Len(block)
    BY <1>1, ParentFacts, PollerAssumption DEF IInv, SearchFits, Numbers
<1>3. strays' \subseteq Hashes
    BY <1>1, <1>2 DEF TypeOK
<1>4. CASE orphans = <<>>
    <2>1. blocks' = blocks /\ lastProcessed' = lastProcessed
        BY <1>4 DEF SearchEnds
    <2>2. ~Durable => \A n \in Stored : n <= lastProcessed'
        BY <1>1, <2>1 DEF IInv, PointerFits
    <2>3. lastProcessed' \in 0..MaxHeight
        BY <1>2, <2>1 DEF TypeOK
    <2> QED
        BY <1>1, <1>3, <2>1, <2>2, <2>3, SearchOver
<1>5. CASE orphans # <<>>
    <2> DEFINE p == Len(block) - Len(orphans)
    <2>1. Len(orphans) \in 1..Len(orphans)
        BY <1>2, <1>5
    <2>2. Last(orphans) = blocks[p] /\ Last(orphans) \in Hashes
        BY <1>1, <1>2, <2>1 DEF IInv, SearchFits, Last
    <2>3. p \in Numbers /\ p \in Nat
        BY <1>2, <2>1 DEF Numbers
    <2>4. p \in Stored
        <3>1. blocks[p] # NoBlock
            BY <2>2, HashFacts, PollerAssumption DEF NoBlock, Numbers
        <3> QED
            BY <2>3, <3>1 DEF Stored
    <2>5. SaveBlock(blocks[p])
        BY <1>5, <2>2 DEF SearchEnds
    <2>6. blocks' = blocks /\ lastProcessed' \in 0..MaxHeight /\ (~Durable => lastProcessed' = p)
        BY <1>1, <1>2, <2>4, <2>5, SavedAgain
    <2>7. ASSUME NEW n \in Stored, ~(n <= p) PROVE \E k \in 1..Len(orphans) : n = Len(block) - k
        <3>1. n \in Nat /\ n < Len(block)
            BY <1>2, PollerAssumption DEF Stored, Numbers
        <3>2. Len(block) - n \in 1..Len(orphans) /\ n = Len(block) - (Len(block) - n)
            BY <1>2, <2>7, <3>1
        <3> QED
            BY <3>2
    <2> HIDE DEF p
    <2> QED
        BY <1>1, <1>3, <2>6, <2>7, SearchOver
<1> QED
    BY <1>4, <1>5

LEMMA CancelIInv == ASSUME IInv, CancelOrphan PROVE IInv'
<1> DEFINE n == Len(Head(orphans))
<1>1. /\ TypeOK /\ pc = "cancel" /\ orphans # <<>> /\ orphans \in Seq(Hashes)
      /\ orphans' = Tail(orphans) /\ pc' = IF Len(orphans) = 1 THEN "idle" ELSE "cancel"
      /\ UNCHANGED <<chainVars, strays, forgotten, last, target, block>>
    BY DEF IInv, CancelOrphan, SearchFits, TypeOK
<1>2. /\ tasks' = [tasks EXCEPT ![n] = @ \ contexts[n]]
      /\ contexts' = [contexts EXCEPT ![n] = {}]
      /\ blocks' = [blocks EXCEPT ![n] = NoBlock] /\ lastProcessed' = lastProcessed
    BY DEF CancelOrphan, DeleteTasks, DeleteBlock
<1>3. Head(orphans) \in Hashes /\ Head(orphans) = orphans[1]
    BY <1>1
<1>4. n \in Numbers
    BY <1>3, HashFacts
<1>5. /\ orphans' \in Seq(Hashes) /\ Len(orphans') = Len(orphans) - 1 /\ Len(orphans) \in Nat
      /\ Len(orphans) >= 1 /\ \A k \in 1..Len(orphans') : orphans'[k] = orphans[k + 1]
    BY <1>1
<1> HIDE DEF n
<1>6. tasks' \in [Numbers -> SUBSET Hashes] /\ contexts' \in [Numbers -> SUBSET Hashes]
    <2>1. tasks[n] \ contexts[n] \in SUBSET Hashes /\ {} \in SUBSET Hashes
        BY <1>1, <1>4 DEF TypeOK
    <2> QED
        BY <1>1, <1>2, <1>4, <2>1 DEF TypeOK
<1>7. /\ blocks' \in [Numbers -> Hashes \cup {NoBlock}] /\ blocks'[n] = NoBlock
      /\ \A m \in Numbers : m # n => blocks'[m] = blocks[m]
    BY <1>1, <1>2, <1>4 DEF TypeOK
<1>8. Stored' = Stored \ {n} /\ \A m \in Stored' : blocks'[m] = blocks[m]
    BY <1>7 DEF Stored
<1>9. TypeOK'
    BY <1>1, <1>2, <1>5, <1>6, <1>7, <1>8 DEF TypeOK, chainVars
<1>10. PollFits' /\ StartFits'
    BY <1>1 DEF PollFits, StartFits
<1>11. SearchFits'
    <2>1. pc' = "cancel" => Len(orphans') # 0
        BY <1>1, <1>5
    <2> QED
        BY <1>1, <2>1 DEF SearchFits
<1>12. PointerFits'
    <2> SUFFICES ASSUME ~Durable', NEW m \in Stored', ~(m <= lastProcessed')
                 PROVE  pc' = "cancel" /\ \E k \in 1..Len(orphans') : Len(orphans'[k]) = m
        BY DEF PointerFits
    <2>1. m \in Stored /\ m # n /\ ~(m <= lastProcessed) /\ ~Durable
        BY <1>1, <1>2, <1>8 DEF Durable, chainVars
    <2>2. PICK k \in 1..Len(orphans) : Len(orphans[k]) = m
        BY <1>1, <2>1 DEF IInv, PointerFits
    <2>3. k # 1
        BY <1>3, <2>1, <2>2 DEF n
    <2>4. k - 1 \in 1..Len(orphans') /\ k = (k - 1) + 1 /\ Len(orphans) # 1
        BY <1>5, <2>2, <2>3
    <2>5. Len(orphans'[k - 1]) = m
        BY <1>5, <2>2, <2>4
    <2> QED
        BY <1>1, <2>4, <2>5
<1>13. Linked'
    BY <1>8 DEF IInv, Linked
<1> QED
    BY <1>9, <1>10, <1>11, <1>12, <1>13 DEF IInv

LEMMA CleanupIInv ==
    ASSUME IInv, NEW expired \in SUBSET Numbers, cleanupContexts(expired)
    PROVE  IInv'
<1>1. TypeOK /\ UNCHANGED <<setup, chain, branch, reorgs, crashes, storeVars, pollerVars>>
    BY DEF IInv, cleanupContexts, chainVars
<1>2. contexts' \in [Numbers -> SUBSET Hashes] /\ forgotten' \subseteq Hashes
    BY <1>1 DEF TypeOK, cleanupContexts
<1> QED
    BY <1>1, <1>2, ChainMoves DEF TypeOK

LEMMA CrashIInv == ASSUME IInv, Crash PROVE IInv'
<1>1. /\ TypeOK /\ pc' = "stopped" /\ last' = NoBlock /\ target' = 0 /\ block' = NoBlock /\ orphans' = <<>>
      /\ contexts' = [n \in Numbers |-> {}]
      /\ UNCHANGED <<setup, chain, branch, reorgs>>
    BY DEF IInv, Crash
<1>2. crashes' \in 0..setup.crashes
    <2>1. crashes \in 0..setup.crashes /\ crashes < setup.crashes /\ crashes' = crashes + 1
        BY <1>1 DEF TypeOK, Crash
    <2>2. setup.crashes \in Nat
        BY <1>1, SetupFacts
    <2> QED
        BY <2>1, <2>2
<1>3. /\ contexts' \in [Numbers -> SUBSET Hashes] /\ <<>> \in Seq(Hashes) /\ 0 \in 0..MaxHeight
      /\ forgotten' \subseteq Hashes
    <2>1. forgotten' = forgotten \cup UNION {contexts[n] : n \in Numbers}
        BY DEF Crash
    <2>2. forgotten' \subseteq Hashes
        BY <1>1, <2>1 DEF TypeOK
    <2> QED
        BY <1>1, <2>2, PollerAssumption
<1>4. CASE Durable
    <2>1. UNCHANGED storeVars
        BY <1>4 DEF Crash
    <2>2. Stored' = Stored /\ Durable'
        BY <1>1, <1>4, <2>1 DEF Stored, storeVars, Durable
    <2>3. TypeOK'
        BY <1>1, <1>2, <1>3, <2>1, <2>2 DEF TypeOK, storeVars
    <2>4. PollFits' /\ SearchFits' /\ PointerFits' /\ StartFits' /\ Linked'
        BY <1>1, <2>1, <2>2 DEF IInv, PollFits, SearchFits, PointerFits, StartFits, Linked, storeVars
    <2> QED
        BY <2>3, <2>4 DEF IInv
<1>5. CASE ~Durable
    <2>1. /\ blocks' = [n \in Numbers |-> NoBlock] /\ lastProcessed' = 0 /\ strays' = {}
          /\ tasks' = [n \in Numbers |-> {}]
        BY <1>5 DEF Crash
    <2>2. Stored' = {}
        BY <2>1 DEF Stored
    <2>3. TypeOK'
        BY <1>1, <1>2, <1>3, <2>1, <2>2 DEF TypeOK
    <2>4. PollFits' /\ SearchFits' /\ PointerFits' /\ StartFits' /\ Linked'
        BY <1>1, <2>2 DEF PollFits, SearchFits, PointerFits, StartFits, Linked
    <2> QED
        BY <2>3, <2>4 DEF IInv
<1> QED
    BY <1>4, <1>5

LEMMA InitIInv == Init => IInv
<1> SUFFICES ASSUME Init PROVE IInv
    OBVIOUS
<1>1. setup \in Setups /\ setup.reorgs \in Nat /\ setup.crashes \in Nat
    BY PollerAssumption DEF Init, SetupType
<1>2. 0 \in Branches /\ StartHeight \in Nat /\ StartHeight \in Numbers
    BY PollerAssumption DEF Branches, Numbers
<1>3. chain \in [1..StartHeight -> Branches]
    BY <1>2 DEF Init
<1>4. chain \in Seq(Branches) /\ Len(chain) = StartHeight
    BY <1>2, <1>3
<1>5. chain \in Hashes
    BY <1>2, <1>4, HashFacts
<1>6. Stored = {} /\ <<>> \in Seq(Hashes) /\ 0 \in 0..MaxHeight
    BY PollerAssumption DEF Init, Stored
<1>7. 0 \in 0..setup.reorgs /\ 0 \in 0..setup.crashes
    BY <1>1
<1>8. TypeOK
    BY <1>1, <1>2, <1>5, <1>6, <1>7 DEF Init, TypeOK
<1>9. PollFits /\ SearchFits /\ PointerFits /\ StartFits /\ Linked
    BY <1>6 DEF Init, PollFits, SearchFits, PointerFits, StartFits, Linked
<1> QED
    BY <1>8, <1>9 DEF IInv

LEMMA NextIInv == IInv /\ [Next]_vars => IInv'
<1> SUFFICES ASSUME IInv, [Next]_vars PROVE IInv'
    OBVIOUS
<1>1. ASSUME PollFails PROVE IInv'
    BY <1>1, BackToIdle DEF PollFails
<1>2. ASSUME SearchFails PROVE IInv'
    BY <1>2, BackToIdle DEF SearchFails
<1>3. CASE UNCHANGED vars
    BY <1>3, ChainMoves DEF vars, chainVars, contextVars, IInv, TypeOK
<1> QED
    BY <1>1, <1>2, <1>3, GrowIInv, ReorgIInv, StartIInv, StartFromLatestIInv, PollIInv, FetchIInv,
       LogsIInv, QueueIInv, FindOrphanIInv, ForkPointIInv, UnknownParentIInv, SearchEndsIInv,
       CancelIInv, CleanupIInv, CrashIInv
    DEF Next, PollerStep

-----------------------------------------------------------------------------
(* The theorems *)

\* The inductive invariant holds in every state of every behaviour.
THEOREM IInvInvariant == Spec => []IInv
BY InitIInv, NextIInv, PTL DEF Spec

\* The stored block records are one chain, and none of them is above the block that the next
\* poll resumes from (processNextBlock, reconcileReorg): for every depth of the search, every
\* length of the history, both stores, every reorganisation, failure and crash.
THEOREM StoredChainLinkedTheorem == Spec => []StoredChainLinked
<1>1. ASSUME IInv PROVE StoredChainLinked
    <2>1. ASSUME pc = "idle", LastFound PROVE \A n \in Stored : n <= Len(LastRecord)
        <3>1. CASE Durable
            BY <1>1, <2>1, <3>1, LastFacts DEF IInv
        <3>2. CASE ~Durable
            <4>1. Len(LastRecord) = lastProcessed
                BY <1>1, <2>1, <3>2, LastFacts DEF IInv
            <4> QED
                BY <1>1, <2>1, <3>2, <4>1 DEF IInv, PointerFits
        <3> QED
            BY <3>1, <3>2
    <2> QED
        BY <1>1, <2>1 DEF StoredChainLinked, IInv, Linked
<1> QED
    BY <1>1, IInvInvariant, PTL
-----------------------------------------------------------------------------
(* The records in more detail *)

\* Records have one history, and a poll follows it.
Ancestry ==
    /\ \A n, m \in Stored : n <= m => \A i \in 1..n : blocks[n][i] = blocks[m][i]
    /\ pc \in {"fetch", "logs"} => \A n \in Stored : \A i \in 1..n : blocks[n][i] = last[i]

\* The orphans that are left are the newest records, from the newest down.
CancelFits ==
    pc = "cancel" =>
        /\ \A k \in 1..Len(orphans) :
              Len(orphans[k]) \in Stored /\ Len(orphans[k]) = Len(orphans[1]) - k + 1
        /\ \A n \in Stored : n <= Len(orphans[1])

\* Numbers, and the stored ones among them, are natural numbers.
LEMMA NumberFacts ==
    /\ \A n \in Numbers : n \in Nat /\ n >= 1 /\ n <= MaxHeight
    /\ Stored \subseteq Numbers
BY PollerAssumption DEF Numbers, Stored

\* The end of a search saves nothing that is not there.
LEMMA SearchKeepsBlocks ==
    ASSUME IInv, FindForkPoint \/ FindUnknownParent \/ SearchEnds
    PROVE  /\ blocks' = blocks /\ Stored' = Stored
           /\ FindForkPoint => ParentNumber \in Stored /\ (~Durable => lastProcessed' = ParentNumber)
<1>1. CASE FindForkPoint
    <2> DEFINE p == ParentNumber
    <2>1. /\ pc = "walk" /\ p # 0 /\ blocks[p] = HashAt(p) /\ p <= Height /\ SaveBlock(blocks[p])
          /\ setup' = setup
        BY <1>1 DEF FindForkPoint, SearchExhausted, GetBlock, chainVars
    <2>2. TypeOK /\ p \in Numbers
        BY <2>1, ParentFacts
    <2>3. blocks[p] \in Hashes
        BY <2>1, <2>2, HashAtFacts DEF TypeOK
    <2>4. p \in Stored
        BY <2>2, <2>3, HashFacts, PollerAssumption DEF NoBlock, Numbers, Stored
    <2> HIDE DEF p
    <2>5. blocks' = blocks /\ Stored' = Stored /\ (~Durable => lastProcessed' = p)
        BY <2>1, <2>2, <2>4, SavedAgain
    <2> QED
        BY <2>4, <2>5 DEF p
<1>2. CASE FindUnknownParent
    <2>1. blocks' = blocks /\ ~FindForkPoint
        BY <1>2, NumberFacts, ParentFacts, HashAtFacts, HashFacts
        DEF FindUnknownParent, FindForkPoint, SearchExhausted, GetBlock, IInv, TypeOK, NoBlock
    <2> QED
        BY <2>1 DEF Stored
<1>3. CASE SearchEnds
    <2>1. pc = "walk" /\ setup' = setup /\ ~FindForkPoint
        BY <1>3 DEF SearchEnds, FindForkPoint, chainVars
    <2>2. /\ TypeOK /\ orphans \in Seq(Hashes) /\ Len(orphans) \in Nat /\ Len(block) \in Nat
          /\ Len(orphans) < Len(block) /\ Len(block) <= MaxHeight /\ MaxHeight \in Nat
        BY <2>1, ParentFacts, PollerAssumption DEF IInv, SearchFits, Numbers
    <2>3. CASE orphans = <<>>
        <3>1. blocks' = blocks
            BY <1>3, <2>3 DEF SearchEnds
        <3> QED
            BY <2>1, <3>1 DEF Stored
    <2>4. CASE orphans # <<>>
        <3> DEFINE p == Len(block) - Len(orphans)
        <3>1. Len(orphans) \in 1..Len(orphans)
            BY <2>2, <2>4
        <3>2. Last(orphans) = blocks[p] /\ Last(orphans) \in Hashes
            BY <2>1, <2>2, <3>1 DEF IInv, SearchFits, Last
        <3>3. p \in Numbers
            BY <2>2, <3>1 DEF Numbers
        <3>4. p \in Stored
            BY <3>2, <3>3, HashFacts, PollerAssumption DEF NoBlock, Numbers, Stored
        <3>5. SaveBlock(blocks[p])
            BY <1>3, <2>4, <3>2 DEF SearchEnds
        <3> QED
            BY <2>1, <2>2, <3>4, <3>5, SavedAgain
    <2> QED
        BY <2>3, <2>4
<1> QED
    BY <1>1, <1>2, <1>3

\* What the search has collected.
LEMMA WalkOrphans ==
    ASSUME IInv, pc = "walk", NEW k \in 1..Len(orphans)
    PROVE  Len(orphans[k]) = Len(block) - k /\ Len(block) - k \in Stored
<1>1. orphans[k] = blocks[Len(block) - k] /\ Len(orphans) < Len(block) /\ TypeOK
    BY DEF IInv, SearchFits
<1>2. orphans \in Seq(Hashes) /\ Len(block) \in Numbers /\ Len(orphans) \in Nat
    BY ParentFacts
<1>3. Len(block) - k \in Numbers
    BY <1>1, <1>2, PollerAssumption DEF Numbers
<1>4. orphans[k] \in Hashes
    BY <1>2
<1>5. Len(block) - k \in Stored
    BY <1>1, <1>3, <1>4, HashFacts, PollerAssumption DEF NoBlock, Numbers, Stored
<1> QED
    BY <1>1, <1>5 DEF TypeOK

\* The record of one orphan goes.
LEMMA CancelFacts ==
    ASSUME IInv, CancelOrphan
    PROVE  /\ orphans \in Seq(Hashes) /\ Len(orphans) \in Nat /\ Len(orphans) >= 1
           /\ Len(orphans[1]) \in Numbers
           /\ orphans' \in Seq(Hashes) /\ Len(orphans') = Len(orphans) - 1
           /\ \A k \in 1..Len(orphans') : orphans'[k] = orphans[k + 1]
           /\ pc = "cancel" /\ pc' = IF Len(orphans) = 1 THEN "idle" ELSE "cancel"
           /\ Stored' = Stored \ {Len(orphans[1])} /\ \A m \in Stored' : blocks'[m] = blocks[m]
           /\ tasks' = [tasks EXCEPT ![Len(orphans[1])] = @ \ contexts[Len(orphans[1])]]
           /\ contexts' = [contexts EXCEPT ![Len(orphans[1])] = {}]
           /\ UNCHANGED <<setup, chain, branch, reorgs, crashes, lastProcessed, last, block>>
<1>1. /\ TypeOK /\ pc = "cancel" /\ orphans # <<>> /\ orphans \in Seq(Hashes)
      /\ orphans' = Tail(orphans) /\ pc' = IF Len(orphans) = 1 THEN "idle" ELSE "cancel"
      /\ UNCHANGED <<setup, chain, branch, reorgs, crashes, lastProcessed, last, block>>
    BY DEF IInv, CancelOrphan, SearchFits, TypeOK, chainVars, DeleteBlock
<1>2. Head(orphans) = orphans[1] /\ orphans[1] \in Hashes
    BY <1>1
<1>3. /\ orphans' \in Seq(Hashes) /\ Len(orphans') = Len(orphans) - 1 /\ Len(orphans) \in Nat
      /\ Len(orphans) >= 1 /\ \A k \in 1..Len(orphans') : orphans'[k] = orphans[k + 1]
    BY <1>1
<1> DEFINE n == Len(orphans[1])
<1>4. n \in Numbers
    BY <1>2, HashFacts
<1>5. /\ tasks' = [tasks EXCEPT ![n] = @ \ contexts[n]] /\ contexts' = [contexts EXCEPT ![n] = {}]
      /\ blocks' = [blocks EXCEPT ![n] = NoBlock]
    BY <1>2 DEF CancelOrphan, DeleteTasks, DeleteBlock
<1> HIDE DEF n
<1>6. blocks'[n] = NoBlock /\ \A m \in Numbers : m # n => blocks'[m] = blocks[m]
    BY <1>1, <1>4, <1>5 DEF TypeOK
<1>7. Stored' = Stored \ {n} /\ \A m \in Stored' : blocks'[m] = blocks[m]
    BY <1>6 DEF Stored
<1> QED
    BY <1>1, <1>3, <1>4, <1>5, <1>7 DEF n

\* The record of the block in hand comes, and one leaves the history.
LEMMA LogsFacts ==
    ASSUME IInv, HandleLogs
    PROVE  /\ block \in Hashes /\ Len(block) \in Numbers /\ Len(block) = Len(last) + 1
           /\ last \in Hashes /\ Len(last) \in Numbers
           /\ \A m \in Stored : m <= Len(last)
           /\ \A i \in 1..Len(last) : block[i] = last[i]
           /\ pc = "logs" /\ pc' \in {"idle", "fetch"} /\ last' = block
           /\ UNCHANGED <<setup, chain, branch, reorgs, crashes, block, orphans>>
           /\ \A m \in Stored' : \/ m \in Stored /\ blocks'[m] = blocks[m]
                                 \/ m = Len(block) /\ blocks'[m] = block
           /\ ~SaveMayFail => /\ Stored' = Surviving
                              /\ blocks'[Len(block)] = block
                              /\ ~Durable => lastProcessed' = Len(block)
<1> DEFINE n == Len(block)
<1>1. TypeOK /\ pc = "logs" /\ UNCHANGED <<setup, chain, branch, reorgs, crashes, block, orphans>>
    BY DEF IInv, HandleLogs, chainVars
<1>2. /\ last \in Hashes /\ block \in Hashes /\ n = Len(last) + 1 /\ Front(block) = last
      /\ \A m \in Stored : m <= Len(last)
    BY <1>1 DEF IInv, PollFits
<1>3. n \in Numbers /\ n \in Nat /\ Len(last) \in Numbers /\ Len(last) \in Nat
    BY <1>2, HashFacts, PollerAssumption DEF Numbers
<1>4. \A i \in 1..Len(last) : block[i] = last[i]
    <2>1. block \in Seq(Branches) /\ Front(block) = SubSeq(block, 1, n - 1)
        BY <1>2, HashFacts DEF Front
    <2> QED
        BY <1>2, <1>3, <2>1
<1>5. pc' \in {"idle", "fetch"} /\ last' = block
    BY DEF HandleLogs
<1>6. PICK saved \in BOOLEAN, pruned \in BOOLEAN :
          (SaveMayFail \/ (saved /\ pruned)) /\ SaveBlockAndPrune(block, saved, pruned)
    BY DEF HandleLogs
<1>7. /\ blocks' \in [Numbers -> Hashes \cup {NoBlock}]
      /\ blocks'[n] = IF saved THEN block ELSE blocks[n]
      /\ \A m \in Numbers : m # n => blocks'[m] \in {blocks[m], NoBlock}
      /\ saved /\ ~Durable => lastProcessed' = n
    BY <1>1, <1>2, <1>6, PruneFacts
<1>8. n \notin Stored /\ blocks[n] = NoBlock /\ block # NoBlock
    BY <1>2, <1>3 DEF Stored, NoBlock
<1>9. BlockHistorySize \in Nat \ {0}
    BY <1>1, SetupFacts DEF BlockHistorySize
<1>10. ASSUME saved, pruned, NEW m \in Numbers, m # n
       PROVE  blocks'[m] = IF m = n - BlockHistorySize THEN NoBlock ELSE blocks[m]
    BY <1>6, <1>10, <1>9 DEF SaveBlockAndPrune
<1> HIDE DEF n
<1>11. ASSUME saved, pruned PROVE Stored' = (Stored \ {n - BlockHistorySize}) \cup {n}
    <2>1. n # n - BlockHistorySize
        BY <1>3, <1>9
    <2> QED
        BY <1>3, <1>7, <1>8, <1>10, <1>11, <2>1 DEF Stored
<1>12. \A m \in Stored' : (m \in Stored /\ blocks'[m] = blocks[m]) \/ (m = n /\ blocks'[m] = block)
    BY <1>7, <1>8 DEF Stored
<1>13. ~SaveMayFail => saved /\ pruned
    BY <1>6
<1>14. Surviving = (Stored \ {n - BlockHistorySize}) \cup {n}
    BY <1>1 DEF Surviving, n
<1> QED
    BY <1>1, <1>2, <1>3, <1>4, <1>5, <1>7, <1>11, <1>12, <1>13, <1>14 DEF n

\* Steps that add no record, and follow the poll's last block.
LEMMA AncestryKept ==
    ASSUME Ancestry, \A n \in Stored' : n \in Stored /\ blocks'[n] = blocks[n],
           pc' \in {"fetch", "logs"} => pc \in {"fetch", "logs"} /\ last' = last
    PROVE  Ancestry'
BY DEF Ancestry

LEMMA PollAncestry == ASSUME IInv, Ancestry, Poll PROVE Ancestry'
<1>1. /\ LastRecord \in Hashes /\ Len(LastRecord) \in Stored
      /\ LastRecord = blocks[Len(LastRecord)]
      /\ Durable => \A n \in Stored : n <= Len(LastRecord)
      /\ ~Durable => Len(LastRecord) = lastProcessed
    BY LastFacts DEF IInv, Poll
<1>2. \A n \in Stored : n <= Len(LastRecord)
    BY <1>1 DEF IInv, PointerFits, Poll
<1>3. last' = LastRecord /\ blocks' = blocks /\ Stored' = Stored
    BY DEF Poll, storeVars, Stored
<1>4. \A n \in Stored : \A i \in 1..n : blocks[n][i] = LastRecord[i]
    BY <1>1, <1>2 DEF Ancestry
<1> QED
    BY <1>3, <1>4 DEF Ancestry

LEMMA LogsAncestry == ASSUME IInv, Ancestry, HandleLogs PROVE Ancestry'
<1>1. /\ Len(block) = Len(last) + 1 /\ Len(last) \in Numbers /\ pc = "logs" /\ last' = block
      /\ \A m \in Stored : m <= Len(last)
      /\ \A i \in 1..Len(last) : block[i] = last[i]
      /\ \A m \in Stored' : \/ m \in Stored /\ blocks'[m] = blocks[m]
                            \/ m = Len(block) /\ blocks'[m] = block
    BY LogsFacts
<1>2. \A m \in Stored : \A i \in 1..m : blocks[m][i] = block[i]
    <2> SUFFICES ASSUME NEW m \in Stored, NEW i \in 1..m PROVE blocks[m][i] = block[i]
        OBVIOUS
    <2>1. i \in 1..Len(last)
        BY <1>1, NumberFacts
    <2> QED
        BY <1>1, <2>1 DEF Ancestry
<1>3. \A m \in Stored' : \A i \in 1..m : blocks'[m][i] = block[i]
    BY <1>1, <1>2
<1>4. ASSUME NEW n \in Stored', NEW m \in Stored', n <= m, NEW i \in 1..n
      PROVE  blocks'[n][i] = blocks'[m][i]
    <2>1. n \in Nat /\ m \in Nat
        <3>1. Stored' \subseteq Numbers
            BY DEF Stored
        <3> QED
            BY <3>1, NumberFacts
    <2>2. i \in 1..m
        BY <1>4, <2>1
    <2> QED
        BY <1>3, <2>2
<1> QED
    BY <1>1, <1>3, <1>4 DEF Ancestry

\* The steps that leave the records alone.
Quiescent ==
    \/ Grow \/ \E fork, height \in Numbers, b \in Branches : Reorg(fork, height, b)
    \/ Start \/ Poll \/ FetchBlock \/ PollFails \/ QueueFails
    \/ FindOrphan \/ FindForkPoint \/ FindUnknownParent \/ SearchFails \/ SearchEnds
    \/ \E expired \in SUBSET Numbers : cleanupContexts(expired)
    \/ UNCHANGED vars

LEMMA QuiescentFacts ==
    ASSUME IInv, Quiescent
    PROVE  blocks' = blocks /\ Stored' = Stored /\ setup' = setup /\ crashes' = crashes
<1>1. setup' = setup /\ crashes' = crashes
    BY DEF Quiescent, Grow, Reorg, Start, Poll, FetchBlock, PollFails, QueueFails,
           cleanupContexts, FindOrphan,
           FindForkPoint, FindUnknownParent, SearchFails, SearchEnds, vars, chainVars
<1>2. CASE FindForkPoint \/ FindUnknownParent \/ SearchEnds
    BY <1>1, <1>2, SearchKeepsBlocks
<1>3. CASE ~(FindForkPoint \/ FindUnknownParent \/ SearchEnds)
    <2>1. blocks' = blocks
        BY <1>3 DEF Quiescent, Grow, Reorg, Start, Poll, FetchBlock, PollFails, QueueFails, cleanupContexts,
                    FindOrphan, SearchFails, vars, storeVars
    <2> QED
        BY <1>1, <2>1 DEF Stored
<1> QED
    BY <1>2, <1>3

LEMMA StepCases ==
    ASSUME [Next]_vars
    PROVE  Quiescent \/ StartFromLatest \/ HandleLogs \/ CancelOrphan \/ Crash
BY DEF Next, PollerStep, Quiescent

LEMMA StartFromLatestFacts ==
    ASSUME IInv, StartFromLatest
    PROVE  /\ Stored = {} /\ pc = "starting"
           /\ UNCHANGED <<setup, chain, branch, reorgs, crashes, tasks, last, block, orphans>>
           /\ \/ pc' = "stopped" /\ Stored' = {} /\ contexts' = contexts
              \/ /\ pc' = "idle" /\ target \in Numbers /\ target <= Height /\ RecoverContexts
                 /\ Stored' = {target} /\ blocks'[target] = HashAt(target)
                 /\ ~Durable => lastProcessed' = target
<1>1. /\ TypeOK /\ Stored = {} /\ target \in Numbers /\ pc = "starting" /\ setup' = setup
      /\ UNCHANGED <<setup, chain, branch, reorgs, crashes, tasks, last, block, orphans>>
    BY DEF IInv, StartFits, StartFromLatest, chainVars
<1>2. CASE target <= Height
    <2> DEFINE h == HashAt(target)
    <2>1. SaveBlock(h) /\ RecoverContexts /\ pc' = "idle"
        BY <1>2 DEF StartFromLatest
    <2>2. h \in Hashes /\ Len(h) = target
        BY <1>1, <1>2, HashAtFacts DEF TypeOK
    <2> HIDE DEF h
    <2>3. blocks'[Len(h)] = h /\ Stored' = Stored \cup {Len(h)} /\ (~Durable => lastProcessed' = Len(h))
        BY <1>1, <2>1, <2>2, SaveFacts
    <2>4. Stored' = {target} /\ blocks'[target] = h /\ (~Durable => lastProcessed' = target)
        BY <1>1, <2>2, <2>3
    <2> QED
        BY <1>1, <1>2, <2>1, <2>4 DEF h
<1>3. CASE ~(target <= Height)
    <2>1. pc' = "stopped" /\ UNCHANGED <<blocks, lastProcessed, contexts>>
        BY <1>3 DEF StartFromLatest
    <2> QED
        BY <1>1, <2>1 DEF Stored
<1> QED
    BY <1>2, <1>3

LEMMA CrashFacts ==
    ASSUME IInv, Crash
    PROVE  /\ pc' = "stopped" /\ setup' = setup /\ chain' = chain /\ crashes' = crashes + 1
           /\ (Durable /\ Stored' = Stored /\ blocks' = blocks) \/ Stored' = {}
BY DEF Crash, Stored, storeVars, chainVars

LEMMA AncestryStep == ASSUME IInv, Ancestry, [Next]_vars PROVE Ancestry'
<1>1. CASE StartFromLatest
    <2>1. (Stored' = {} \/ Stored' = {target}) /\ pc' \in {"stopped", "idle"}
        BY <1>1, StartFromLatestFacts
    <2> QED
        BY <2>1 DEF Ancestry
<1>2. CASE HandleLogs
    BY <1>2, LogsAncestry
<1>3. CASE CancelOrphan
    BY <1>3, CancelFacts, AncestryKept
<1>4. CASE Crash
    BY <1>4, CrashFacts, AncestryKept
<1>5. CASE Poll
    BY <1>5, PollAncestry
<1>6. CASE Quiescent /\ ~Poll
    <2>1. pc' \in {"fetch", "logs"} => pc \in {"fetch", "logs"} /\ last' = last
        BY <1>6 DEF Quiescent, Grow, Reorg, Start, FetchBlock, PollFails, QueueFails,
           cleanupContexts, FindOrphan,
           FindForkPoint, FindUnknownParent, SearchFails, SearchEnds, AfterSearch, vars, pollerVars
    <2> QED
        BY <1>6, <2>1, QuiescentFacts, AncestryKept
<1> QED
    BY <1>1, <1>2, <1>3, <1>4, <1>5, <1>6, StepCases

LEMMA CancelStep == ASSUME IInv, CancelFits, [Next]_vars PROVE CancelFits'
<1>1. CASE CancelOrphan
    <2> SUFFICES ASSUME pc' = "cancel" PROVE CancelFits'
        BY DEF CancelFits
    <2>1. /\ orphans \in Seq(Hashes) /\ Len(orphans) \in Nat /\ Len(orphans') = Len(orphans) - 1
          /\ \A k \in 1..Len(orphans') : orphans'[k] = orphans[k + 1]
          /\ pc = "cancel" /\ Len(orphans) # 1 /\ Len(orphans) >= 1
          /\ Stored' = Stored \ {Len(orphans[1])} /\ Len(orphans[1]) \in Numbers
        BY <1>1, CancelFacts
    <2>2. /\ \A k \in 1..Len(orphans) :
                Len(orphans[k]) \in Stored /\ Len(orphans[k]) = Len(orphans[1]) - k + 1
          /\ \A n \in Stored : n <= Len(orphans[1])
        BY <2>1 DEF CancelFits
    <2> DEFINE x == Len(orphans[1])
    <2>3. x \in Nat
        BY <2>1, NumberFacts
    <2>4. Len(orphans'[1]) = x - 1
        <3>1. 1 \in 1..Len(orphans') /\ 2 \in 1..Len(orphans)
            BY <2>1
        <3>2. orphans'[1] = orphans[2]
            BY <2>1, <3>1
        <3> QED
            BY <2>2, <2>3, <3>1, <3>2
    <2>5. ASSUME NEW k \in 1..Len(orphans')
          PROVE  Len(orphans'[k]) \in Stored' /\ Len(orphans'[k]) = Len(orphans'[1]) - k + 1
        <3>1. k + 1 \in 1..Len(orphans) /\ orphans'[k] = orphans[k + 1]
            BY <2>1
        <3>2. Len(orphans'[k]) \in Stored /\ Len(orphans'[k]) = x - (k + 1) + 1
            BY <2>2, <3>1
        <3> QED
            BY <2>1, <2>3, <2>4, <3>2
    <2>6. ASSUME NEW n \in Stored' PROVE n <= Len(orphans'[1])
        <3>1. n \in Stored /\ n # x /\ n <= x /\ n \in Nat
            BY <2>1, <2>2, NumberFacts
        <3> QED
            BY <2>3, <2>4, <3>1
    <2> QED
        BY <2>5, <2>6 DEF CancelFits
<1>2. CASE FindForkPoint \/ FindUnknownParent \/ SearchEnds
    <2> SUFFICES ASSUME pc' = "cancel" PROVE CancelFits'
        BY DEF CancelFits
    <2>1. pc = "walk" /\ orphans' = orphans /\ Stored' = Stored /\ orphans # <<>>
        BY <1>2, SearchKeepsBlocks DEF FindForkPoint, FindUnknownParent, SearchEnds, AfterSearch
    <2>2. Len(orphans) \in Nat /\ orphans \in Seq(Hashes) /\ Len(block) \in Nat
          /\ \A n \in Stored : n < Len(block)
        BY <2>1, ParentFacts
    <2>3. \A k \in 1..Len(orphans) : Len(orphans[k]) = Len(block) - k /\ Len(block) - k \in Stored
        BY <2>1, WalkOrphans
    <2>4. 1 \in 1..Len(orphans)
        BY <2>1, <2>2
    <2>5. Len(orphans[1]) = Len(block) - 1
        BY <2>3, <2>4
    <2>6. \A n \in Stored : n <= Len(block) - 1
        BY <2>2, NumberFacts
    <2> QED
        BY <2>1, <2>2, <2>3, <2>5, <2>6 DEF CancelFits
<1>3. CASE ~(CancelOrphan \/ FindForkPoint \/ FindUnknownParent \/ SearchEnds)
    <2>1. pc' = "cancel" => pc = "cancel" /\ orphans' = orphans /\ Stored' = Stored
        BY <1>3 DEF Next, PollerStep, Grow, Reorg, Start, StartFromLatest, Poll, FetchBlock,
           HandleLogs, PollFails, QueueFails, cleanupContexts, FindOrphan, SearchFails, Crash, vars, pollerVars,
           storeVars, Stored
    <2> QED
        BY <2>1 DEF CancelFits
<1> QED
    BY <1>1, <1>2, <1>3
-----------------------------------------------------------------------------
(* Reorganisations that leave a record alone *)

\* Saves succeed and no reorganisation reaches below the records that are kept.
Sheltered == setup.forksAboveStore /\ ~SaveMayFail

\* The first n blocks of h are canonical.
Agrees(h, n) == n <= Height /\ \A i \in 1..n : h[i] = chain[i]

\* The records have no gap, are no more than the history, and include the one from which a
\* poll goes on.
RecordsFit ==
    /\ \A n, m \in Stored, k \in Numbers : n <= k /\ k <= m => k \in Stored
    /\ \A n, m \in Stored : m < n + BlockHistorySize
    /\ pc \in {"fetch", "logs", "walk"} => Len(last) \in Stored

\* A canonical record that the search does not collect.
Anchor(a) ==
    /\ Agrees(blocks[a], a)
    /\ pc = "walk" => a < Len(block) - Len(orphans)
    /\ pc = "cancel" => \A k \in 1..Len(orphans) : a < Len(orphans[k])

\* There is such a record, or will be when the block in hand is saved.
Anchored ==
    /\ pc \in {"idle", "fetch", "walk", "cancel"} => \E a \in Stored : Anchor(a)
    /\ pc = "stopped" /\ Stored # {} => \E a \in Stored : Anchor(a)
    /\ pc = "logs" => \E a \in Surviving : Agrees(block, a)

\* The pointer of the in-memory store names a record that stays.
PointerStays ==
    /\ pc \in {"idle", "fetch", "logs", "walk", "cancel"} => lastProcessed \in Stored
    /\ pc = "cancel" => \A k \in 1..Len(orphans) : lastProcessed < Len(orphans[k])

PointerSheltered == ~Durable /\ MaxReorgDepth >= BlockHistorySize => PointerStays

ShelteredInv ==
    /\ ~SaveMayFail => RecordsFit
    /\ Sheltered => Anchored /\ PointerSheltered

LEMMA ShelteredFacts ==
    ASSUME TypeOK
    PROVE  /\ BlockHistorySize \in Nat \ {0} /\ MaxReorgDepth \in Nat \ {0}
           /\ setup' = setup => /\ Sheltered' = Sheltered /\ Durable' = Durable
                                /\ BlockHistorySize' = BlockHistorySize
                                /\ MaxReorgDepth' = MaxReorgDepth
BY SetupFacts DEF BlockHistorySize, MaxReorgDepth, Sheltered, SaveMayFail, Durable

LEMMA SetupKept == ASSUME [Next]_vars PROVE setup' = setup
BY DEF Next, PollerStep, Grow, Reorg, Start, StartFromLatest, Poll, FetchBlock,
   HandleLogs, PollFails, QueueFails, cleanupContexts, FindOrphan, FindForkPoint, FindUnknownParent, SearchFails,
   SearchEnds, CancelOrphan, Crash, vars, chainVars

\* Sequences that agree everywhere are equal.
LEMMA SeqEqual ==
    ASSUME NEW S, NEW s \in Seq(S), NEW t \in Seq(S), Len(s) = Len(t),
           \A i \in 1..Len(s) : s[i] = t[i]
    PROVE  s = t
OBVIOUS

\* A canonical hash is the one that the node returns.
LEMMA AgreesFacts ==
    ASSUME chain \in Hashes, NEW n \in Numbers, NEW h \in Hashes, Len(h) = n
    PROVE  Agrees(h, n) <=> n <= Height /\ h = HashAt(n)
<1>1. chain \in Seq(Branches) /\ h \in Seq(Branches) /\ n \in Nat /\ n >= 1
    BY HashFacts, NumberFacts
<1>2. ASSUME Agrees(h, n) PROVE n <= Height /\ h = HashAt(n)
    <2>1. n <= Len(chain) /\ \A i \in 1..n : h[i] = chain[i]
        BY <1>2 DEF Agrees, Height
    <2>2. HashAt(n) \in Seq(Branches) /\ Len(HashAt(n)) = n /\ \A i \in 1..n : HashAt(n)[i] = chain[i]
        BY <1>1, <2>1 DEF HashAt
    <2>3. \A i \in 1..n : h[i] = HashAt(n)[i]
        BY <2>1, <2>2
    <2>4. h = HashAt(n)
        BY <1>1, <2>2, <2>3, SeqEqual
    <2> QED
        BY <2>1, <2>4 DEF Height
<1>3. ASSUME n <= Height, h = HashAt(n) PROVE Agrees(h, n)
    BY <1>1, <1>3 DEF Agrees, HashAt, Height
<1> QED
    BY <1>2, <1>3

LEMMA RecordsKept ==
    ASSUME TypeOK, RecordsFit, Stored' = Stored \/ Stored' = {}, setup' = setup,
           pc' \in {"fetch", "logs", "walk"} =>
               pc \in {"fetch", "logs", "walk"} /\ last' = last /\ Stored' = Stored
    PROVE  RecordsFit'
<1>1. BlockHistorySize' = BlockHistorySize
    BY ShelteredFacts
<1> QED
    BY <1>1 DEF RecordsFit

LEMMA LogsRecords ==
    ASSUME IInv, ~SaveMayFail, RecordsFit, HandleLogs
    PROVE  RecordsFit'
<1> DEFINE n == Len(block)
           H == BlockHistorySize
<1>1. /\ n \in Numbers /\ n = Len(last) + 1 /\ Len(last) \in Numbers /\ last' = block
      /\ pc = "logs" /\ pc' \in {"idle", "fetch"} /\ setup' = setup
      /\ \A m \in Stored : m <= Len(last)
      /\ Stored' = Surviving
    BY LogsFacts DEF Sheltered
<1>2. H \in Nat \ {0} /\ BlockHistorySize' = H
    BY <1>1, ShelteredFacts DEF IInv
<1>3. Stored' = (Stored \ {n - H}) \cup {n}
    BY <1>1 DEF Surviving
<1>4. Len(last) \in Stored
    BY <1>1 DEF RecordsFit
<1>5. n \in Nat /\ n >= 1 /\ Len(last) \in Nat /\ n = Len(last) + 1
    BY <1>1, NumberFacts
<1> HIDE DEF n, H
\* The record that leaves the history is the oldest one.
<1>6. ASSUME NEW m \in Stored PROVE m \in Nat /\ m >= n - H /\ m < n
    <2>1. m \in Nat /\ m <= Len(last)
        BY <1>1, NumberFacts
    <2>2. Len(last) < m + H
        BY <1>4 DEF RecordsFit, H
    <2> QED
        BY <1>2, <1>5, <2>1, <2>2
<1>7. ASSUME NEW m \in Stored', NEW l \in Stored' PROVE l < m + H
    <2>1. CASE m = n
        BY <1>2, <1>3, <1>5, <1>6, <2>1
    <2>2. CASE m \in Stored /\ m # n - H /\ l = n
        BY <1>2, <1>5, <1>6, <2>2
    <2>3. CASE m \in Stored /\ l \in Stored
        BY <2>3 DEF RecordsFit, H
    <2> QED
        BY <1>3, <2>1, <2>2, <2>3
<1>8. ASSUME NEW m \in Stored', NEW l \in Stored', NEW k \in Numbers, m <= k, k <= l
      PROVE  k \in Stored'
    <2>0. k \in Nat
        BY NumberFacts
    <2>1. CASE k = n
        BY <1>3, <2>1
    <2>2. CASE k # n
        <3>1. m \in Nat /\ l \in Nat /\ l <= n /\ m >= n - H
            BY <1>2, <1>3, <1>5, <1>6
        <3>2. k < n /\ m < n
            BY <1>5, <1>8, <2>0, <2>2, <3>1
        <3>3. m \in Stored /\ m # n - H
            BY <1>3, <3>2, <1>5
        <3>4. k <= Len(last) /\ k # n - H
            BY <1>2, <1>5, <1>8, <2>0, <3>1, <3>2, <3>3
        <3>5. k \in Stored
            BY <1>4, <1>8, <3>3, <3>4 DEF RecordsFit
        <3> QED
            BY <1>3, <3>4, <3>5
    <2> QED
        BY <2>1, <2>2
<1>9. Len(last') \in Stored'
    BY <1>1, <1>3 DEF n
<1> QED
    BY <1>2, <1>7, <1>8, <1>9 DEF RecordsFit, H

LEMMA RecordsStep ==
    ASSUME IInv, CancelFits, ~SaveMayFail, RecordsFit, [Next]_vars
    PROVE  RecordsFit'
<1>0. TypeOK /\ setup' = setup /\ BlockHistorySize' = BlockHistorySize /\ BlockHistorySize \in Nat \ {0}
    BY SetupKept, ShelteredFacts DEF IInv
<1>1. CASE StartFromLatest
    <2>1. (Stored' = {} \/ (Stored' = {target} /\ target \in Numbers)) /\ pc' \in {"stopped", "idle"}
        BY <1>1, StartFromLatestFacts
    <2>2. CASE Stored' = {}
        BY <2>1, <2>2 DEF RecordsFit
    <2>3. CASE Stored' = {target} /\ target \in Numbers
        <3>1. target \in Nat
            BY <2>3, NumberFacts
        <3>2. \A n, m \in Stored' : m < n + BlockHistorySize
            BY <1>0, <2>3, <3>1
        <3>3. \A n, m \in Stored', k \in Numbers : n <= k /\ k <= m => k \in Stored'
            BY <2>3, <3>1, NumberFacts
        <3> QED
            BY <1>0, <2>1, <3>2, <3>3 DEF RecordsFit
    <2> QED
        BY <2>1, <2>2, <2>3
<1>2. CASE HandleLogs
    BY <1>2, LogsRecords
<1>3. CASE CancelOrphan
    <2>1. /\ Stored' = Stored \ {Len(orphans[1])} /\ pc = "cancel" /\ pc' \in {"idle", "cancel"}
          /\ Len(orphans[1]) \in Numbers
        BY <1>3, CancelFacts
    <2>2. \A n \in Stored : n <= Len(orphans[1])
        BY <2>1 DEF CancelFits
    <2>3. ASSUME NEW n \in Stored', NEW m \in Stored', NEW k \in Numbers, n <= k, k <= m
          PROVE  k \in Stored'
        <3>1. m \in Nat /\ k \in Nat /\ Len(orphans[1]) \in Nat /\ m <= Len(orphans[1]) /\ m # Len(orphans[1])
            BY <2>1, <2>2, NumberFacts
        <3>2. k # Len(orphans[1])
            BY <2>3, <3>1
        <3>3. k \in Stored
            BY <2>1, <2>3 DEF RecordsFit
        <3> QED
            BY <2>1, <3>2, <3>3
    <2>4. \A n, m \in Stored' : m < n + BlockHistorySize
        BY <2>1 DEF RecordsFit
    <2> QED
        BY <1>0, <2>1, <2>3, <2>4 DEF RecordsFit
<1>4. CASE Crash
    BY <1>0, <1>4, CrashFacts, RecordsKept
<1>5. CASE Poll
    <2>1. last' = LastRecord /\ Len(LastRecord) \in Stored /\ Stored' = Stored
        BY <1>0, <1>5, LastFacts DEF Poll, Stored, storeVars
    <2> QED
        BY <1>0, <2>1 DEF RecordsFit
<1>6. CASE Quiescent /\ ~Poll
    <2>1. pc' \in {"fetch", "logs", "walk"} => pc \in {"fetch", "logs", "walk"} /\ last' = last
        BY <1>6 DEF Quiescent, Grow, Reorg, Start, FetchBlock, PollFails, QueueFails,
           cleanupContexts, FindOrphan,
           FindForkPoint, FindUnknownParent, SearchFails, SearchEnds, AfterSearch, vars, pollerVars
    <2>2. Stored' = Stored
        BY <1>6, QuiescentFacts
    <2> QED
        BY <1>0, <2>1, <2>2, RecordsKept
<1> QED
    BY <1>1, <1>2, <1>3, <1>4, <1>5, <1>6, StepCases
-----------------------------------------------------------------------------

\* A record that agrees with the chain below the fork goes on agreeing.
LEMMA ReorgAgrees ==
    ASSUME IInv, NEW fork \in Numbers, NEW height \in Numbers, NEW b \in Branches,
           Reorg(fork, height, b), NEW h, NEW n \in Numbers, n <= fork, Agrees(h, n)
    PROVE  Agrees(h, n)'
<1>1. chain' = [i \in 1..height |-> IF i <= fork THEN chain[i] ELSE b]
    BY DEF Reorg
<1>2. chain \in Seq(Branches) /\ fork < Len(chain) /\ fork \in Nat /\ height \in Nat /\ n \in Nat
    BY HashFacts, NumberFacts DEF IInv, TypeOK, Reorg, Height
<1>3. fork < height
    <2>1. setup.top \in Nat /\ height \in fork + 1 .. setup.top - 1
        BY SetupFacts DEF Reorg, IInv
    <2> QED
        BY <1>2, <2>1
<1>4. chain' \in Seq(Branches) /\ Len(chain') = height
    <2>1. \A i \in 1..height : i <= fork => chain[i] \in Branches
        BY <1>2
    <2>2. chain' \in [1..height -> Branches]
        BY <1>1, <2>1
    <2> QED
        BY <1>2, <2>2
<1>5. \A i \in 1..n : chain'[i] = chain[i]
    BY <1>1, <1>2, <1>3
<1> QED
    BY <1>2, <1>3, <1>4, <1>5 DEF Agrees, Height

\* The numbers that survive are numbers, and the block in hand is not above them.
LEMMA SurvivingFacts ==
    ASSUME IInv
    PROVE  /\ Surviving \subseteq Numbers
           /\ pc = "logs" => \A a \in Surviving : a <= Len(block)
           /\ pc # "logs" => Surviving = Stored
<1>1. CASE pc = "logs"
    <2>1. /\ block \in Hashes /\ Len(block) = Len(last) + 1 /\ last \in Hashes
          /\ \A n \in Stored : n <= Len(last)
        BY <1>1 DEF IInv, PollFits
    <2>2. Len(block) \in Numbers /\ Len(last) \in Numbers
        BY <2>1, HashFacts
    <2>3. \A n \in Stored : n <= Len(block)
        BY <2>1, <2>2, NumberFacts
    <2> QED
        BY <1>1, <2>2, <2>3, NumberFacts DEF Surviving
<1>2. CASE pc # "logs"
    BY <1>2, NumberFacts DEF Surviving
<1> QED
    BY <1>1, <1>2

\* A reorganisation leaves an anchor.
LEMMA ReorgAnchored ==
    ASSUME IInv, Ancestry, Sheltered, Anchored,
           NEW fork \in Numbers, NEW height \in Numbers, NEW b \in Branches, Reorg(fork, height, b)
    PROVE  Anchored'
<1>1. UNCHANGED <<blocks, pc, block, orphans, setup>> /\ Stored' = Stored
    BY DEF Reorg, storeVars, pollerVars, Stored
<1>2. Surviving' = Surviving
    BY <1>1 DEF Surviving, BlockHistorySize
<1>3. Surviving # {} => \E n \in Surviving : n <= fork
    BY DEF Reorg, Sheltered
<1>4. ASSUME NEW a \in Stored, Anchor(a), pc # "logs" PROVE \E c \in Stored : Anchor(c)'
    <2>1. PICK n \in Stored : n <= fork
        BY <1>3, <1>4, SurvivingFacts
    <2>2. a \in Nat /\ n \in Nat /\ fork \in Nat /\ a \in Numbers /\ n \in Numbers
        BY NumberFacts
    <2>3. CASE a <= fork
        <3>1. Agrees(blocks[a], a)'
            BY <1>1, <1>4, <2>2, <2>3, ReorgAgrees DEF Anchor, Agrees
        <3> QED
            BY <1>1, <1>4, <3>1 DEF Anchor
    <2>4. CASE ~(a <= fork)
        <3>1. n < a
            BY <2>1, <2>2, <2>4
        <3>2. \A i \in 1..n : blocks[n][i] = blocks[a][i]
            BY <2>2, <3>1 DEF Ancestry
        <3>3. n <= Height /\ \A i \in 1..n : blocks[a][i] = chain[i]
            <4>1. Height \in Nat
                BY HashFacts, NumberFacts DEF Height, IInv, TypeOK
            <4> QED
                BY <1>4, <2>2, <3>1, <4>1 DEF Anchor, Agrees
        <3>4. Agrees(blocks[n], n)
            BY <3>2, <3>3 DEF Agrees
        <3>5. Agrees(blocks[n], n)'
            BY <1>1, <2>1, <2>2, <3>4, ReorgAgrees DEF Agrees
        <3>6. pc = "walk" => n < Len(block) - Len(orphans)
            BY <1>4, <2>2, <3>1, ParentFacts DEF Anchor
        <3>7. pc = "cancel" => \A k \in 1..Len(orphans) : n < Len(orphans[k])
            <4> SUFFICES ASSUME pc = "cancel", NEW k \in 1..Len(orphans) PROVE n < Len(orphans[k])
                OBVIOUS
            <4>1. orphans[k] \in Hashes
                BY DEF IInv, TypeOK
            <4>2. Len(orphans[k]) \in Nat
                BY <4>1, HashFacts, NumberFacts
            <4> QED
                BY <1>4, <2>2, <3>1, <4>2 DEF Anchor
        <3> QED
            BY <1>1, <3>5, <3>6, <3>7 DEF Anchor
    <2> QED
        BY <2>3, <2>4
<1>5. ASSUME pc = "logs" PROVE \E a \in Surviving : Agrees(block, a)'
    <2>1. PICK a \in Surviving : Agrees(block, a)
        BY <1>5 DEF Anchored
    <2>2. PICK n \in Surviving : n <= fork
        BY <1>3, <2>1
    <2>3. a \in Nat /\ n \in Nat /\ fork \in Nat /\ a \in Numbers /\ n \in Numbers
        BY NumberFacts, SurvivingFacts
    <2>4. CASE a <= fork
        BY <1>1, <2>1, <2>3, <2>4, ReorgAgrees DEF Agrees
    <2>5. CASE ~(a <= fork)
        <3>1. n < a
            BY <2>2, <2>3, <2>5
        <3>2. Height \in Nat
            BY HashFacts, NumberFacts DEF Height, IInv, TypeOK
        <3>3. Agrees(block, n)
            BY <2>1, <2>3, <3>1, <3>2 DEF Agrees
        <3> QED
            BY <1>1, <2>2, <2>3, <3>3, ReorgAgrees DEF Agrees
    <2> QED
        BY <2>4, <2>5
<1>6. pc \in {"idle", "fetch", "walk", "cancel"} => \E c \in Stored : Anchor(c)'
    BY <1>4 DEF Anchored
<1>7. pc = "stopped" /\ Stored # {} => \E c \in Stored : Anchor(c)'
    BY <1>4 DEF Anchored
<1> QED
    BY <1>1, <1>2, <1>5, <1>6, <1>7 DEF Anchored

LEMMA GrowAnchored == ASSUME IInv, Anchored, Grow PROVE Anchored'
<1>1. UNCHANGED <<blocks, pc, block, orphans, setup>> /\ Stored' = Stored /\ chain' = Append(chain, branch)
    BY DEF Grow, storeVars, pollerVars, Stored
<1>2. Surviving' = Surviving
    BY <1>1 DEF Surviving, BlockHistorySize
<1>3. chain \in Seq(Branches) /\ branch \in Branches /\ Len(chain) \in Nat
    BY HashFacts, NumberFacts DEF IInv, TypeOK
<1>4. ASSUME NEW h, NEW n \in Numbers, Agrees(h, n) PROVE Agrees(h, n)'
    <2>1. n \in Nat /\ n <= Len(chain) /\ \A i \in 1..n : h[i] = chain[i]
        BY <1>4, NumberFacts DEF Agrees, Height
    <2>2. Len(chain') = Len(chain) + 1 /\ \A i \in 1..Len(chain) : chain'[i] = chain[i]
        BY <1>1, <1>3
    <2>3. \A i \in 1..n : i \in 1..Len(chain)
        BY <1>3, <2>1
    <2>4. n <= Len(chain')
        BY <1>3, <2>1, <2>2
    <2> QED
        BY <2>1, <2>2, <2>3, <2>4 DEF Agrees, Height
<1>5. ASSUME NEW a \in Stored, Anchor(a) PROVE Anchor(a)'
    <2>1. Agrees(blocks[a], a)'
        BY <1>1, <1>4, <1>5, NumberFacts DEF Anchor, Agrees
    <2> QED
        BY <1>1, <1>5, <2>1 DEF Anchor
<1>6. ASSUME NEW a \in Surviving, Agrees(block, a) PROVE Agrees(block, a)'
    BY <1>1, <1>4, <1>6, SurvivingFacts DEF Agrees
<1> QED
    BY <1>1, <1>2, <1>5, <1>6 DEF Anchored

\* A poll that has a block in hand has a canonical record too.
LEMMA LogsAnchor ==
    ASSUME IInv, Ancestry, RecordsFit, Anchored, pc = "logs"
    PROVE  \E a \in Stored : Agrees(blocks[a], a)
<1>1. /\ last \in Hashes /\ block \in Hashes /\ Len(block) = Len(last) + 1 /\ Front(block) = last
      /\ Len(last) \in Stored /\ TypeOK
    BY DEF IInv, PollFits, RecordsFit
<1>2. Len(block) \in Nat /\ Len(last) \in Nat /\ block \in Seq(Branches) /\ Height \in Nat
    BY <1>1, HashFacts, NumberFacts DEF Height, TypeOK
<1>3. \A i \in 1..Len(last) : block[i] = last[i]
    <2>1. Front(block) = SubSeq(block, 1, Len(block) - 1)
        BY DEF Front
    <2> QED
        BY <1>1, <1>2, <2>1
<1>4. PICK a \in Surviving : Agrees(block, a)
    BY DEF Anchored
<1>5. a = Len(block) \/ a \in Stored
    BY <1>4 DEF Surviving
<1>6. ASSUME NEW c \in Stored, Agrees(block, c) PROVE Agrees(blocks[c], c)
    <2>1. \A i \in 1..c : blocks[c][i] = last[i] /\ i \in 1..Len(last)
        <3>1. c <= Len(last) /\ c \in Nat
            BY NumberFacts DEF IInv, PollFits
        <3> QED
            BY <1>2, <3>1 DEF Ancestry
    <2> QED
        BY <1>3, <1>6, <2>1 DEF Agrees
<1>7. CASE a \in Stored
    BY <1>4, <1>6, <1>7
<1>8. CASE a = Len(block)
    <2>1. Agrees(block, Len(last))
        BY <1>1, <1>2, <1>4, <1>8 DEF Agrees
    <2> QED
        BY <1>1, <1>6, <2>1
<1> QED
    BY <1>5, <1>7, <1>8

\* Whatever the poller does, there is a canonical record, once there is a record.
LEMMA SomeAnchor ==
    ASSUME IInv, Ancestry, RecordsFit, Anchored, Stored # {}
    PROVE  \E a \in Stored : Agrees(blocks[a], a)
<1>1. pc # "starting"
    BY DEF IInv, StartFits
<1>2. CASE pc = "logs"
    BY <1>2, LogsAnchor
<1>3. CASE pc \in {"stopped", "idle", "fetch", "walk", "cancel"}
    BY <1>3 DEF Anchored, Anchor
<1> QED
    BY <1>1, <1>2, <1>3 DEF IInv, TypeOK

LEMMA FetchAnchored == ASSUME IInv, Anchored, FetchBlock PROVE Anchored'
<1>1. /\ pc = "fetch" /\ block' = HashAt(Len(last) + 1) /\ Len(last) < Height
      /\ pc' \in {"logs", "walk"} /\ orphans' = <<>> /\ last \in Hashes
      /\ chain' = chain /\ blocks' = blocks /\ Stored' = Stored /\ setup' = setup
    BY DEF FetchBlock, chainVars, storeVars, Stored, IInv, PollFits
<1>2. /\ Len(last) \in Nat /\ Len(last) + 1 \in Numbers /\ Len(last) + 1 <= Height /\ chain \in Hashes
      /\ \A n \in Stored : n <= Len(last)
    <2>1. Len(last) \in Numbers /\ Len(chain) \in Numbers /\ chain \in Hashes
        BY <1>1, HashFacts DEF IInv, TypeOK
    <2> QED
        BY <1>1, <2>1, PollerAssumption DEF Numbers, Height, IInv, PollFits
<1>3. block' \in Hashes /\ Len(block') = Len(last) + 1
    BY <1>1, <1>2, HashAtFacts
<1>4. CASE pc' = "logs"
    <2> DEFINE n == Len(last) + 1
    <2>1. Agrees(block', n)
        BY <1>1, <1>2, <1>3, AgreesFacts
    <2>2. n \in Surviving'
        BY <1>3, <1>4 DEF Surviving
    <2>3. \E a \in Surviving' : a <= Height' /\ \A i \in 1..a : block'[i] = chain'[i]
        BY <1>1, <2>1, <2>2 DEF Agrees, Height
    <2> QED
        BY <1>4, <2>3 DEF Anchored, Agrees
<1>5. CASE pc' = "walk"
    <2>1. PICK a \in Stored : Agrees(blocks[a], a)
        BY <1>1 DEF Anchored, Anchor
    <2>2. a \in Nat /\ a < Len(block') - Len(orphans')
        <3>1. Len(orphans') = 0
            BY <1>1
        <3> QED
            BY <1>2, <1>3, <3>1, NumberFacts
    <2>3. Anchor(a)'
        BY <1>1, <1>5, <2>1, <2>2 DEF Anchor, Agrees, Height
    <2> QED
        BY <1>1, <1>5, <2>3 DEF Anchored
<1> QED
    BY <1>1, <1>4, <1>5

LEMMA LogsAnchored ==
    ASSUME IInv, Ancestry, Sheltered, Anchored, HandleLogs
    PROVE  Anchored'
<1>1. /\ pc = "logs" /\ pc' \in {"idle", "fetch"} /\ chain' = chain /\ Stored' = Surviving
      /\ \A i \in 1..Len(last) : block[i] = last[i]
      /\ \A m \in Stored : m <= Len(last)
      /\ Len(last) \in Numbers
      /\ \A m \in Stored' : \/ m \in Stored /\ blocks'[m] = blocks[m]
                            \/ m = Len(block) /\ blocks'[m] = block
    BY LogsFacts DEF Sheltered
<1>2. PICK a \in Surviving : Agrees(block, a)
    BY <1>1 DEF Anchored
<1>3. \A i \in 1..a : blocks'[a][i] = block[i]
    <2>1. CASE a \in Stored /\ blocks'[a] = blocks[a]
        <3>1. \A i \in 1..a : i \in 1..Len(last)
            BY <1>1, <2>1, NumberFacts
        <3> QED
            BY <1>1, <2>1, <3>1 DEF Ancestry
    <2>2. CASE a = Len(block) /\ blocks'[a] = block
        BY <2>2
    <2> QED
        BY <1>1, <1>2, <2>1, <2>2
<1>4. Anchor(a)'
    BY <1>1, <1>2, <1>3 DEF Anchor, Agrees, Height
<1> QED
    BY <1>1, <1>2, <1>4 DEF Anchored

LEMMA FindOrphanAnchored == ASSUME IInv, Anchored, FindOrphan PROVE Anchored'
<1> DEFINE p == ParentNumber
<1>1. /\ pc = "walk" /\ pc' = "walk" /\ p # 0 /\ p <= Height /\ blocks[p] # HashAt(p) /\ blocks[p] # NoBlock
      /\ orphans' = Append(orphans, blocks[p])
      /\ chain' = chain /\ blocks' = blocks /\ Stored' = Stored /\ block' = block
    BY DEF FindOrphan, SearchExhausted, GetBlock, chainVars, storeVars, Stored
<1>2. /\ TypeOK /\ p \in Numbers /\ p \in Nat /\ p + Len(orphans) + 1 = Len(block)
      /\ Len(orphans) \in Nat /\ Len(block) \in Nat /\ orphans \in Seq(Hashes)
    BY <1>1, ParentFacts
<1> HIDE DEF p
<1>3. blocks[p] \in Hashes /\ p \in Stored
    BY <1>1, <1>2 DEF TypeOK, Stored
<1>4. Len(orphans') = Len(orphans) + 1
    BY <1>1, <1>2, <1>3
<1>5. PICK a \in Stored : Agrees(blocks[a], a) /\ a < Len(block) - Len(orphans)
    BY <1>1 DEF Anchored, Anchor
<1>6. a # p
    BY <1>1, <1>2, <1>3, <1>5, AgreesFacts DEF TypeOK
<1>7. a \in Nat
    BY NumberFacts
<1>8. a < Len(block) - Len(orphans')
    BY <1>2, <1>4, <1>5, <1>6, <1>7
<1>9. Anchor(a)'
    BY <1>1, <1>5, <1>8 DEF Anchor, Agrees, Height
<1> QED
    BY <1>1, <1>9 DEF Anchored

LEMMA SearchAnchored ==
    ASSUME IInv, Anchored, FindForkPoint \/ FindUnknownParent \/ SearchEnds
    PROVE  Anchored'
<1>1. /\ pc = "walk" /\ pc' \in {"idle", "cancel"} /\ orphans' = orphans /\ block' = block /\ chain' = chain
    BY DEF FindForkPoint, FindUnknownParent, SearchEnds, AfterSearch, chainVars
<1>2. blocks' = blocks /\ Stored' = Stored
    BY SearchKeepsBlocks
<1>3. PICK a \in Stored : Agrees(blocks[a], a) /\ a < Len(block) - Len(orphans)
    BY <1>1 DEF Anchored, Anchor
<1>4. ASSUME NEW k \in 1..Len(orphans) PROVE a < Len(orphans[k])
    <2>1. Len(orphans[k]) = Len(block) - k /\ Len(orphans) \in Nat /\ Len(block) \in Nat
        BY <1>1, WalkOrphans, ParentFacts
    <2>2. a \in Nat
        BY NumberFacts
    <2> QED
        BY <1>3, <2>1, <2>2
<1>5. Anchor(a)'
    BY <1>1, <1>2, <1>3, <1>4 DEF Anchor, Agrees, Height
<1> QED
    BY <1>1, <1>2, <1>5 DEF Anchored

LEMMA CancelAnchored == ASSUME IInv, Anchored, CancelOrphan PROVE Anchored'
<1>1. /\ Len(orphans) \in Nat /\ Len(orphans) >= 1 /\ Len(orphans') = Len(orphans) - 1
      /\ \A k \in 1..Len(orphans') : orphans'[k] = orphans[k + 1]
      /\ pc = "cancel" /\ pc' \in {"idle", "cancel"} /\ chain' = chain
      /\ Stored' = Stored \ {Len(orphans[1])} /\ \A m \in Stored' : blocks'[m] = blocks[m]
      /\ Len(orphans[1]) \in Numbers
    BY CancelFacts
<1>2. PICK a \in Stored : Agrees(blocks[a], a) /\ \A k \in 1..Len(orphans) : a < Len(orphans[k])
    BY <1>1 DEF Anchored, Anchor
<1>3. a \in Stored'
    <2>1. 1 \in 1..Len(orphans) /\ a \in Nat /\ Len(orphans[1]) \in Nat
        BY <1>1, NumberFacts
    <2> QED
        BY <1>1, <1>2, <2>1
<1>4. \A k \in 1..Len(orphans') : a < Len(orphans'[k])
    <2> SUFFICES ASSUME NEW k \in 1..Len(orphans') PROVE a < Len(orphans'[k])
        OBVIOUS
    <2>1. k + 1 \in 1..Len(orphans)
        BY <1>1
    <2> QED
        BY <1>1, <1>2, <2>1
<1>5. Anchor(a)'
    BY <1>1, <1>2, <1>3, <1>4 DEF Anchor, Agrees, Height
<1> QED
    BY <1>1, <1>3, <1>5 DEF Anchored

LEMMA AnchoredStep ==
    ASSUME IInv, Ancestry, Sheltered, RecordsFit, Anchored, [Next]_vars
    PROVE  Anchored'
\* Steps that end with the poller at rest, or at the start of a round, with the same records.
<1>1. ASSUME pc' \in {"idle", "fetch", "stopped", "starting"}, chain' = chain, blocks' = blocks,
             Stored' = Stored, pc' \in {"idle", "fetch"} => Stored # {}
      PROVE  Anchored'
    <2>1. Stored # {} => \E a \in Stored' : Anchor(a)'
        <3> SUFFICES ASSUME Stored # {} PROVE \E a \in Stored' : Anchor(a)'
            OBVIOUS
        <3>1. PICK a \in Stored : Agrees(blocks[a], a)
            BY SomeAnchor
        <3>2. Anchor(a)'
            BY <1>1, <3>1 DEF Anchor, Agrees, Height
        <3> QED
            BY <1>1, <3>2
    <2> QED
        BY <1>1, <2>1 DEF Anchored
<1>2. pc \in {"idle", "fetch", "logs", "walk"} => Stored # {}
    BY DEF Anchored, RecordsFit
<1>3. CASE Start
    <2>1. /\ chain' = chain /\ blocks' = blocks /\ Stored' = Stored
          /\ (LastFound /\ pc' = "idle") \/ pc' = "starting"
        BY <1>3 DEF Start, chainVars, storeVars, Stored
    <2>2. LastFound => Stored # {}
        BY LastFacts DEF IInv
    <2> QED
        BY <1>1, <2>1, <2>2
<1>4. CASE StartFromLatest
    <2>1. CASE pc' = "stopped" /\ Stored' = {}
        BY <2>1 DEF Anchored
    <2>2. CASE /\ pc' = "idle" /\ target \in Numbers /\ target <= Height
               /\ Stored' = {target} /\ blocks'[target] = HashAt(target)
        <3>1. chain \in Hashes /\ HashAt(target) \in Hashes /\ Len(HashAt(target)) = target
            BY <2>2, HashAtFacts DEF IInv, TypeOK
        <3>2. Agrees(HashAt(target), target)
            BY <2>2, <3>1, AgreesFacts
        <3>3. chain' = chain
            BY <1>4, StartFromLatestFacts
        <3>4. Agrees(blocks[target], target)'
            BY <2>2, <3>2, <3>3, <1>4 DEF Agrees, Height, StartFromLatest
        <3>5. target' = target
            BY <1>4 DEF StartFromLatest
        <3> QED
            BY <2>2, <3>4, <3>5 DEF Anchored, Anchor
    <2> QED
        BY <1>4, <2>1, <2>2, StartFromLatestFacts
<1>5. CASE Poll
    BY <1>1, <1>2, <1>5 DEF Poll, chainVars, storeVars, Stored
<1>6. CASE PollFails
    BY <1>1, <1>2, <1>6 DEF PollFails, chainVars, storeVars, Stored
<1>7. CASE QueueFails
    BY <1>1, <1>2, <1>7 DEF QueueFails, chainVars, Stored
<1>8. CASE SearchFails
    BY <1>1, <1>2, <1>8 DEF SearchFails, chainVars, storeVars, Stored
<1>9. CASE Crash
    <2>1. /\ pc' = "stopped" /\ chain' = chain
          /\ (Stored' = Stored /\ blocks' = blocks) \/ Stored' = {}
        BY <1>9, CrashFacts
    <2>2. CASE Stored' = {}
        BY <2>1, <2>2 DEF Anchored
    <2> QED
        BY <1>1, <2>1, <2>2
<1>10. CASE UNCHANGED vars \/ \E expired \in SUBSET Numbers : cleanupContexts(expired)
    <2>1. UNCHANGED <<setup, chain, blocks, pc, block, orphans>> /\ Stored' = Stored
        BY <1>10 DEF cleanupContexts, vars, chainVars, storeVars, pollerVars, Stored
    <2> QED
        BY <2>1 DEF Anchored, Anchor, Agrees, Height, Surviving, BlockHistorySize
<1> QED
    BY <1>3, <1>4, <1>5, <1>6, <1>7, <1>8, <1>9, <1>10, GrowAnchored, ReorgAnchored, FetchAnchored,
       LogsAnchored, FindOrphanAnchored, SearchAnchored, CancelAnchored
    DEF Next, PollerStep

\* A search that is as long as the history finds a stored fork point.
LEMMA SearchSucceeds ==
    ASSUME IInv, Sheltered, RecordsFit, Anchored
    PROVE  ~FindUnknownParent /\ (MaxReorgDepth >= BlockHistorySize => ~SearchEnds)
<1> SUFFICES ASSUME pc = "walk"
             PROVE  ~FindUnknownParent /\ (MaxReorgDepth >= BlockHistorySize => ~SearchEnds)
    BY DEF FindUnknownParent, SearchEnds
<1> DEFINE p == ParentNumber
<1>1. /\ TypeOK /\ Len(orphans) \in Nat /\ Len(block) \in Nat /\ Len(last) = Len(block) - 1
      /\ p \in Nat /\ p + Len(orphans) + 1 = Len(block) /\ (p # 0 => p \in Numbers)
    BY ParentFacts
<1> HIDE DEF p
<1>2. PICK a \in Stored : a < Len(block) - Len(orphans)
    BY DEF Anchored, Anchor
<1>3. a \in Nat /\ a >= 1 /\ a <= p
    BY <1>1, <1>2, NumberFacts
<1>4. Len(last) \in Stored
    BY DEF RecordsFit
<1>5. p \in Numbers /\ p <= Len(last)
    BY <1>1, <1>3
<1>6. p \in Stored
    BY <1>3, <1>4, <1>5 DEF RecordsFit
<1>7. ~FindUnknownParent
    BY <1>6 DEF FindUnknownParent, GetBlock, Stored, p
<1>8. ASSUME MaxReorgDepth >= BlockHistorySize PROVE ~SearchEnds
    <2>1. MaxReorgDepth \in Nat /\ BlockHistorySize \in Nat
        BY <1>1, ShelteredFacts
    <2>2. Len(last) < a + BlockHistorySize
        BY <1>4 DEF RecordsFit
    <2>3. Len(orphans) # MaxReorgDepth
        BY <1>1, <1>3, <1>8, <2>1, <2>2
    <2> QED
        BY <1>3, <2>3 DEF SearchEnds, SearchExhausted, p
<1> QED
    BY <1>7, <1>8

LEMMA PointerStep ==
    ASSUME IInv, Sheltered, RecordsFit, Anchored, PointerSheltered, [Next]_vars
    PROVE  PointerSheltered'
<1>0. TypeOK /\ setup' = setup /\ Durable' = Durable
      /\ (MaxReorgDepth >= BlockHistorySize)' = (MaxReorgDepth >= BlockHistorySize)
    BY SetupKept, ShelteredFacts DEF IInv
<1> SUFFICES ASSUME ~Durable, MaxReorgDepth >= BlockHistorySize PROVE PointerStays'
    BY <1>0 DEF PointerSheltered
<1>1. PointerStays
    BY DEF PointerSheltered
<1>2. CASE Start
    <2>1. Stored = {}
        BY <1>2 DEF IInv, StartFits, Start
    <2>2. ~LastFound
        BY <1>0, <2>1, LastFacts
    <2> QED
        BY <1>2, <2>2 DEF Start, PointerStays
<1>3. CASE StartFromLatest
    BY <1>3, StartFromLatestFacts DEF PointerStays
<1>4. CASE HandleLogs
    <2>1. Stored' = Surviving /\ lastProcessed' = Len(block) /\ pc' \in {"idle", "fetch"} /\ pc = "logs"
        BY <1>4, LogsFacts DEF Sheltered
    <2> QED
        BY <2>1 DEF PointerStays, Surviving
<1>5. CASE FindForkPoint
    <2> DEFINE p == ParentNumber
    <2>1. /\ pc = "walk" /\ pc' \in {"idle", "cancel"} /\ orphans' = orphans
        BY <1>5 DEF FindForkPoint, AfterSearch
    <2>2. Stored' = Stored /\ p \in Stored /\ lastProcessed' = p
        BY <1>5, SearchKeepsBlocks
    <2>3. ASSUME NEW k \in 1..Len(orphans) PROVE p < Len(orphans[k])
        <3>1. Len(orphans[k]) = Len(block) - k
            BY <2>1, WalkOrphans
        <3>2. Len(orphans) \in Nat /\ Len(block) \in Nat /\ p \in Nat /\ p + Len(orphans) + 1 = Len(block)
            BY <2>1, ParentFacts
        <3> HIDE DEF p
        <3> QED
            BY <3>1, <3>2
    <2> QED
        BY <2>1, <2>2, <2>3 DEF PointerStays
<1>6. CASE FindUnknownParent \/ SearchEnds
    BY <1>6, SearchSucceeds
<1>7. CASE CancelOrphan
    <2>1. /\ Len(orphans) \in Nat /\ Len(orphans) >= 1 /\ Len(orphans') = Len(orphans) - 1
          /\ \A k \in 1..Len(orphans') : orphans'[k] = orphans[k + 1]
          /\ pc = "cancel" /\ Stored' = Stored \ {Len(orphans[1])} /\ Len(orphans[1]) \in Numbers
          /\ lastProcessed' = lastProcessed
        BY <1>7, CancelFacts
    <2>2. lastProcessed \in Stored /\ \A k \in 1..Len(orphans) : lastProcessed < Len(orphans[k])
        BY <1>1, <2>1 DEF PointerStays
    <2>3. lastProcessed \in Stored'
        <3>1. 1 \in 1..Len(orphans) /\ lastProcessed \in Nat /\ Len(orphans[1]) \in Nat
            BY <2>1, <2>2, NumberFacts
        <3> QED
            BY <2>1, <2>2, <3>1
    <2>4. \A k \in 1..Len(orphans') : lastProcessed < Len(orphans'[k])
        <3> SUFFICES ASSUME NEW k \in 1..Len(orphans') PROVE lastProcessed < Len(orphans'[k])
            OBVIOUS
        <3>1. k + 1 \in 1..Len(orphans)
            BY <2>1
        <3> QED
            BY <2>1, <2>2, <3>1
    <2> QED
        BY <2>1, <2>3, <2>4 DEF PointerStays
<1>8. CASE Crash
    BY <1>8, CrashFacts DEF PointerStays
<1>9. CASE Quiescent /\ ~(Start \/ FindForkPoint \/ FindUnknownParent \/ SearchEnds)
    <2>1. /\ lastProcessed' = lastProcessed
          /\ pc' = "cancel" => pc = "cancel" /\ orphans' = orphans
          /\ pc' \in {"idle", "fetch", "logs", "walk", "cancel"} =>
                pc \in {"idle", "fetch", "logs", "walk", "cancel"}
        BY <1>9 DEF Quiescent, Grow, Reorg, Poll, FetchBlock, PollFails, QueueFails,
           cleanupContexts, FindOrphan,
                    SearchFails, vars, storeVars, pollerVars
    <2>2. Stored' = Stored
        BY <1>9, QuiescentFacts
    <2> QED
        BY <1>1, <2>1, <2>2 DEF PointerStays
<1> QED
    BY <1>2, <1>3, <1>4, <1>5, <1>6, <1>7, <1>8, <1>9, StepCases

\* The whole invariant of the records.
RecordInv == IInv /\ Ancestry /\ CancelFits /\ ShelteredInv

LEMMA RecordStep == RecordInv /\ [Next]_vars => RecordInv'
<1> SUFFICES ASSUME RecordInv, [Next]_vars PROVE RecordInv'
    OBVIOUS
<1>1. IInv' /\ Ancestry' /\ CancelFits'
    BY NextIInv, AncestryStep, CancelStep DEF RecordInv
<1>2. Sheltered' = Sheltered /\ SaveMayFail' = SaveMayFail
    BY SetupKept, ShelteredFacts DEF RecordInv, IInv, SaveMayFail
<1>3. ~SaveMayFail => RecordsFit'
    BY RecordsStep DEF RecordInv, ShelteredInv
<1>4. Sheltered => Anchored' /\ PointerSheltered'
    BY AnchoredStep, PointerStep DEF RecordInv, ShelteredInv, Sheltered
<1>5. ShelteredInv'
    BY <1>2, <1>3, <1>4 DEF ShelteredInv
<1> QED
    BY <1>1, <1>5 DEF RecordInv

\* In every state the records are one history, the orphans still to be cancelled are the
\* newest of them, and one canonical record outlives every reorganisation that the setup
\* allows.
THEOREM RecordInvariant == Spec => []RecordInv
<1>1. Init => RecordInv
    <2> SUFFICES ASSUME Init PROVE RecordInv
        OBVIOUS
    <2>1. pc = "stopped" /\ Stored = {} /\ IInv
        BY InitIInv DEF Init, Stored
    <2> QED
        BY <2>1 DEF RecordInv, Ancestry, CancelFits, ShelteredInv, RecordsFit, Anchored,
                    PointerSheltered, PointerStays
<1> QED
    BY <1>1, RecordStep, PTL DEF Spec

\* Between polls GetLastProcessedBlock finds a block: reconcileReorg never deletes the record
\* from which the poller resumes, for every length of the chain and of the history, any number
\* of reorganisations and crashes, and with calls to the node that fail.
THEOREM AlwaysResumableTheorem == Spec => []AlwaysResumable
<1>1. ASSUME RecordInv PROVE AlwaysResumable
    <2> SUFFICES ASSUME pc = "idle", Sheltered, Durable \/ MaxReorgDepth >= BlockHistorySize
                 PROVE  LastFound
        BY DEF AlwaysResumable, Sheltered
    <2>1. CASE Durable
        <3>1. Stored # {} /\ Stored \in SUBSET Numbers
            BY <1>1, NumberFacts DEF RecordInv, ShelteredInv, Anchored
        <3>2. Max(Stored) \in Stored
            BY <3>1, MaxFacts
        <3> QED
            BY <2>1, <3>1, <3>2 DEF LastFound, LastRecord, Stored
    <2>2. CASE ~Durable
        <3>1. lastProcessed \in Stored
            BY <1>1, <2>2 DEF RecordInv, ShelteredInv, PointerSheltered, PointerStays
        <3>2. lastProcessed # 0 /\ blocks[lastProcessed] # NoBlock
            BY <3>1, NumberFacts DEF Stored
        <3> QED
            BY <2>2, <3>2 DEF LastFound, LastRecord
    <2> QED
        BY <2>1, <2>2
<1> QED
    BY <1>1, RecordInvariant, PTL
-----------------------------------------------------------------------------
(* The tasks of the stored blocks *)

\* The calls of a poll and saves succeed, and reorganisations are to branches that are new.
Quiet == ~SaveMayFail /\ ~RpcMayFail /\ ~setup.branchesReturn

\* h was canonical once: it has no branch that is to come, and the chain does not grow into it.
Past(h) ==
    /\ \A i \in 1..Len(h) : h[i] <= reorgs
    /\ Len(h) > Height => \E i \in 1..Height : h[i] # chain[i]

BranchesFit ==
    /\ branch <= reorgs /\ \A i \in 1..Height : chain[i] <= reorgs
    /\ \A n \in Stored : Past(blocks[n])
    /\ pc = "logs" => Past(block)

\* A task that is not forgotten is in the context of its block; before the poller runs, and
\* above the records, all are forgotten; and a canonical block above the oldest record has its
\* own tasks and, those that are forgotten excepted, no other.
TasksFit ==
    /\ \A n \in Numbers : tasks[n] \subseteq contexts[n] \cup forgotten
    /\ pc \in {"stopped", "starting"} => \A n \in Numbers : tasks[n] \subseteq forgotten
    /\ Stored # {} =>
          \A n \in Numbers : (\A m \in Stored : m < n) => tasks[n] \subseteq forgotten
    /\ \A n \in Stored :
          n - 1 \in Stored /\ Agrees(blocks[n], n) =>
              blocks[n] \in tasks[n] /\ tasks[n] \subseteq {blocks[n]} \cup forgotten

QuietInv == Quiet => BranchesFit /\ TasksFit

LEMMA QuietKept ==
    ASSUME [Next]_vars, Quiet'
    PROVE  Quiet /\ ~QueueFails /\ setup' = setup
<1>1. setup' = setup
    BY SetupKept
<1>2. Quiet
    BY <1>1 DEF Quiet, SaveMayFail, RpcMayFail
<1> QED
    BY <1>1, <1>2 DEF Quiet, QueueFails

\* What the node returns was canonical.
LEMMA HashAtPast ==
    ASSUME TypeOK, BranchesFit, NEW n \in Numbers, n <= Height
    PROVE  Past(HashAt(n))
<1>1. chain \in Seq(Branches) /\ n \in Nat /\ n >= 1 /\ Height \in Nat /\ Height = Len(chain)
    BY HashFacts, NumberFacts DEF TypeOK, Height
<1>2. Len(HashAt(n)) = n /\ \A i \in 1..n : HashAt(n)[i] = chain[i] /\ i \in 1..Height
    BY <1>1 DEF HashAt
<1> QED
    BY <1>1, <1>2 DEF Past, BranchesFit

\* The chain grows: what was canonical once becomes so neither again nor anew.
LEMMA GrowPast ==
    ASSUME TypeOK, BranchesFit, Grow, NEW h \in Hashes, Past(h)
    PROVE  Past(h)' /\ (Agrees(h, Len(h))' => Agrees(h, Len(h)))
<1>1. chain' = Append(chain, branch) /\ reorgs' = reorgs
    BY DEF Grow
<1>2. chain \in Seq(Branches) /\ branch \in Branches /\ Len(chain) \in Nat /\ Len(h) \in Nat
    BY HashFacts, NumberFacts DEF TypeOK
<1>3. Height = Len(chain) /\ Height' = Len(chain) + 1 /\ \A i \in 1..Len(chain) : chain'[i] = chain[i]
    BY <1>1, <1>2 DEF Height
<1>4. Past(h)'
    <2>1. ASSUME Len(h) > Height' PROVE \E i \in 1..Height' : h[i] # chain'[i]
        <3>1. Len(h) > Height
            BY <1>2, <1>3, <2>1
        <3>2. PICK i \in 1..Height : h[i] # chain[i]
            BY <3>1 DEF Past
        <3>3. i \in 1..Height'
            BY <1>2, <1>3, <3>2
        <3> QED
            BY <1>3, <3>2, <3>3
    <2> QED
        BY <1>1, <2>1 DEF Past
<1>5. ASSUME Agrees(h, Len(h))' PROVE Agrees(h, Len(h))
    <2>1. Len(h) <= Height' /\ \A i \in 1..Len(h) : h[i] = chain'[i]
        BY <1>5 DEF Agrees
    <2>2. Len(h) <= Height
        <3> SUFFICES ASSUME Len(h) > Height PROVE FALSE
            BY <1>2, <1>3
        <3>1. PICK i \in 1..Height : h[i] # chain[i]
            BY DEF Past
        <3>2. i \in 1..Len(h)
            BY <1>2, <1>3
        <3> QED
            BY <1>3, <2>1, <3>1, <3>2
    <2>3. \A i \in 1..Len(h) : i \in 1..Len(chain)
        BY <1>2, <1>3, <2>2
    <2> QED
        BY <1>3, <2>1, <2>2, <2>3 DEF Agrees
<1> QED
    BY <1>4, <1>5

LEMMA ReorgPast ==
    ASSUME TypeOK, BranchesFit, ~setup.branchesReturn,
           NEW fork \in Numbers, NEW height \in Numbers, NEW b \in Branches, Reorg(fork, height, b)
    PROVE  /\ branch' <= reorgs' /\ \A i \in 1..Height' : chain'[i] <= reorgs'
           /\ \A h \in Hashes : Past(h) => Past(h)' /\ (Agrees(h, Len(h))' => Agrees(h, Len(h)))
<1>1. /\ chain' = [i \in 1..height |-> IF i <= fork THEN chain[i] ELSE b]
      /\ b = reorgs + 1 /\ branch' = b /\ reorgs' = reorgs + 1
    BY DEF Reorg
<1>2. /\ chain \in Seq(Branches) /\ fork < Len(chain) /\ fork \in Nat /\ height \in Nat
      /\ Len(chain) \in Nat /\ Height = Len(chain)
    BY HashFacts, NumberFacts DEF TypeOK, Reorg, Height
<1>3. fork < height /\ reorgs \in Nat
    <2>1. setup.top \in Nat /\ height \in fork + 1 .. setup.top - 1 /\ setup.reorgs \in Nat
        BY SetupFacts DEF Reorg
    <2> QED
        BY <1>2, <2>1 DEF TypeOK
<1>4. Height' = height /\ \A i \in 1..height : chain'[i] = IF i <= fork THEN chain[i] ELSE b
    <2>1. \A i \in 1..height : i <= fork => chain[i] \in Branches
        BY <1>2
    <2>2. chain' \in [1..height -> Branches]
        BY <1>1, <2>1
    <2>3. Len(chain') = height
        BY <1>2, <2>2
    <2> QED
        BY <1>1, <2>3 DEF Height
<1>5. \A i \in 1..fork : i \in 1..Height /\ chain[i] \in Nat /\ chain[i] <= reorgs
    <2> SUFFICES ASSUME NEW i \in 1..fork PROVE i \in 1..Height /\ chain[i] \in Nat /\ chain[i] <= reorgs
        OBVIOUS
    <2>1. i \in 1..Height
        BY <1>2
    <2>2. chain[i] \in Branches
        BY <1>2, <2>1
    <2> QED
        BY <2>1, <2>2, PollerAssumption DEF BranchesFit, Branches
<1>6. branch' <= reorgs'
    BY <1>1, <1>3
<1>7. ASSUME NEW i \in 1..Height' PROVE chain'[i] <= reorgs'
    <2>1. CASE i <= fork
        <3>1. i \in 1..fork /\ chain'[i] = chain[i]
            BY <1>2, <1>4, <2>1
        <3> QED
            BY <1>1, <1>3, <1>5, <3>1
    <2>2. CASE ~(i <= fork)
        BY <1>1, <1>3, <1>4, <2>2
    <2> QED
        BY <2>1, <2>2
<1>8. ASSUME NEW h \in Hashes, Past(h) PROVE Past(h)' /\ (Agrees(h, Len(h))' => Agrees(h, Len(h)))
    <2>1. Len(h) \in Nat /\ \A i \in 1..Len(h) : h[i] \in Nat /\ h[i] <= reorgs
        <3>1. h \in Seq(Branches) /\ Len(h) \in Nat
            BY HashFacts, NumberFacts
        <3>2. \A i \in 1..Len(h) : h[i] \in Branches
            BY <3>1
        <3> QED
            BY <1>8, <3>1, <3>2, PollerAssumption DEF Past, Branches
    \* The first new block is on a branch that h does not know.
    <2>2. ASSUME Len(h) > fork
          PROVE  /\ fork + 1 \in 1..Len(h) /\ fork + 1 \in 1..Height'
                 /\ h[fork + 1] # chain'[fork + 1]
        <3>1. fork + 1 \in 1..Len(h) /\ fork + 1 \in 1..height
            BY <1>2, <1>3, <2>1, <2>2
        <3>2. chain'[fork + 1] = reorgs + 1
            BY <1>1, <1>2, <1>4, <3>1
        <3>3. h[fork + 1] \in Nat /\ h[fork + 1] <= reorgs
            BY <2>1, <3>1
        <3> QED
            BY <1>3, <1>4, <3>1, <3>2, <3>3
    <2>3. Past(h)'
        <3>1. \A i \in 1..Len(h) : h[i] <= reorgs'
            BY <1>1, <1>3, <2>1
        <3>2. ASSUME Len(h) > Height' PROVE \E i \in 1..Height' : h[i] # chain'[i]
            <4>1. Len(h) > fork
                BY <1>2, <1>3, <1>4, <2>1, <3>2
            <4> QED
                BY <2>2, <4>1
        <3> QED
            BY <3>1, <3>2 DEF Past
    <2>4. ASSUME Agrees(h, Len(h))' PROVE Agrees(h, Len(h))
        <3>1. Len(h) <= Height' /\ \A i \in 1..Len(h) : h[i] = chain'[i]
            BY <2>4 DEF Agrees
        <3>2. Len(h) <= fork
            BY <1>2, <2>1, <2>2, <3>1
        <3>3. \A i \in 1..Len(h) : chain'[i] = chain[i]
            <4> SUFFICES ASSUME NEW i \in 1..Len(h) PROVE chain'[i] = chain[i]
                OBVIOUS
            <4>1. i \in 1..height /\ i <= fork
                BY <1>2, <1>3, <2>1, <3>2
            <4> QED
                BY <1>4, <4>1
        <3> QED
            BY <1>2, <2>1, <3>1, <3>2, <3>3 DEF Agrees
    <2> QED
        BY <2>3, <2>4
<1> QED
    BY <1>6, <1>7, <1>8

\* The chain moves, and neither the records nor their tasks do.
LEMMA ChainQuiet ==
    ASSUME RecordInv, Quiet, QuietInv,
           Grow \/ \E fork, height \in Numbers, b \in Branches : Reorg(fork, height, b)
    PROVE  BranchesFit' /\ TasksFit'
<1>1. TypeOK /\ BranchesFit /\ TasksFit /\ ~setup.branchesReturn
    BY DEF RecordInv, IInv, QuietInv, Quiet
<1>2. /\ branch' <= reorgs' /\ \A i \in 1..Height' : chain'[i] <= reorgs'
      /\ \A h \in Hashes : Past(h) => Past(h)' /\ (Agrees(h, Len(h))' => Agrees(h, Len(h)))
    <2>1. CASE Grow
        <3>1. branch' <= reorgs' /\ \A i \in 1..Height' : chain'[i] <= reorgs'
            <4>1. chain' = Append(chain, branch) /\ reorgs' = reorgs /\ branch' = branch
                BY <2>1 DEF Grow
            <4>2. chain \in Seq(Branches) /\ branch \in Branches /\ Len(chain) \in Nat
                BY <1>1, HashFacts, NumberFacts DEF TypeOK
            <4>3. /\ Height = Len(chain) /\ Height' = Len(chain) + 1 /\ chain'[Len(chain) + 1] = branch
                  /\ \A i \in 1..Len(chain) : chain'[i] = chain[i]
                BY <4>1, <4>2 DEF Height
            <4>4. \A i \in 1..Height' : i \in 1..Len(chain) \/ i = Len(chain) + 1
                BY <4>2, <4>3
            <4> QED
                BY <1>1, <4>1, <4>3, <4>4 DEF BranchesFit
        <3> QED
            BY <1>1, <2>1, <3>1, GrowPast
    <2>2. ASSUME NEW fork \in Numbers, NEW height \in Numbers, NEW b \in Branches, Reorg(fork, height, b)
          PROVE  /\ branch' <= reorgs' /\ \A i \in 1..Height' : chain'[i] <= reorgs'
                 /\ \A h \in Hashes : Past(h) => Past(h)' /\ (Agrees(h, Len(h))' => Agrees(h, Len(h)))
        BY <1>1, <2>2, ReorgPast
    <2> QED
        BY <2>1, <2>2
<1>3. UNCHANGED <<blocks, pc, block, tasks, contexts, forgotten>> /\ Stored' = Stored
    BY DEF Grow, Reorg, storeVars, contextVars, pollerVars, Stored
<1>4. \A n \in Stored : blocks[n] \in Hashes /\ Len(blocks[n]) = n
    BY <1>1 DEF TypeOK, Stored
<1>5. pc = "logs" => block \in Hashes
    BY DEF RecordInv, IInv, PollFits
<1>6. ASSUME NEW n \in Stored
      PROVE  Past(blocks[n])' /\ (Agrees(blocks[n], n)' => Agrees(blocks[n], n))
    <2>1. PICK h \in Hashes : h = blocks[n]
        BY <1>4
    <2>2. Past(h) /\ Len(h) = n
        BY <1>1, <1>4, <2>1 DEF BranchesFit
    <2>3. Past(h)' /\ (Agrees(h, n)' => Agrees(h, n))
        BY <1>2, <2>2
    <2> QED
        BY <1>3, <2>1, <2>3 DEF Past, Agrees
<1>7. ASSUME pc = "logs" PROVE Past(block)'
    <2>1. PICK h \in Hashes : h = block
        BY <1>5, <1>7
    <2>2. Past(h)'
        BY <1>1, <1>2, <1>7, <2>1 DEF BranchesFit
    <2> QED
        BY <1>3, <2>1, <2>2 DEF Past
<1>8. BranchesFit'
    BY <1>2, <1>3, <1>6, <1>7 DEF BranchesFit
<1>9. TasksFit'
    BY <1>1, <1>3, <1>6 DEF TasksFit
<1> QED
    BY <1>8, <1>9

LEMMA LogsTasks == ASSUME RecordInv, Quiet, QuietInv, HandleLogs PROVE BranchesFit' /\ TasksFit'
<1> DEFINE n == Len(block)
           created == IF n <= Height THEN {HashAt(n)} ELSE {}
<1>1. TypeOK /\ IInv /\ BranchesFit /\ TasksFit /\ RecordsFit
    BY DEF RecordInv, IInv, QuietInv, Quiet, ShelteredInv
<1>2. /\ block \in Hashes /\ n \in Numbers /\ n = Len(last) + 1 /\ Len(last) \in Numbers
      /\ \A m \in Stored : m <= Len(last)
      /\ pc = "logs" /\ pc' \in {"idle", "fetch"}
      /\ UNCHANGED <<setup, chain, branch, reorgs, crashes, block, orphans>>
      /\ \A m \in Stored' : \/ m \in Stored /\ blocks'[m] = blocks[m]
                            \/ m = n /\ blocks'[m] = block
      /\ Stored' = Surviving /\ blocks'[n] = block
    BY <1>1, LogsFacts DEF Quiet
<1>3. /\ contexts' = [contexts EXCEPT ![n] = @ \cup created] /\ forgotten' = forgotten
      /\ tasks' = [tasks EXCEPT ![n] = @ \cup created]
    BY DEF HandleLogs, SavePendingTask
\* The last block is stored, and the one in hand is above it.
<1>4. tasks[n] \subseteq forgotten
    <2>1. \A m \in Stored : m < n
        BY <1>2, NumberFacts
    <2>2. Stored # {}
        BY <1>1, <1>2 DEF RecordsFit
    <2> QED
        BY <1>1, <1>2, <2>1, <2>2 DEF TasksFit
<1>5. n \in Stored' /\ n \in Nat
    BY <1>2, NumberFacts DEF Surviving
<1>6. Agrees(block, n) => created = {block}
    <2> SUFFICES ASSUME Agrees(block, n) PROVE created = {block}
        OBVIOUS
    <2>1. n <= Height /\ block = HashAt(n)
        BY <1>1, <1>2, AgreesFacts DEF TypeOK
    <2> QED
        BY <2>1
<1> HIDE DEF created
<1>7. /\ tasks'[n] = tasks[n] \cup created /\ \A m \in Numbers : m # n => tasks'[m] = tasks[m]
      /\ contexts'[n] = contexts[n] \cup created
      /\ \A m \in Numbers : m # n => contexts'[m] = contexts[m]
    BY <1>1, <1>2, <1>3 DEF TypeOK
<1> HIDE DEF n
<1>8. BranchesFit'
    <2>1. ASSUME NEW m \in Stored' PROVE Past(blocks[m])'
        <3>1. PICK h : h = blocks'[m] /\ Past(h)
            BY <1>1, <1>2 DEF BranchesFit
        <3>2. Past(h)'
            BY <1>2, <3>1 DEF Past, Height
        <3> QED
            BY <3>1, <3>2 DEF Past
    <2> QED
        BY <1>1, <1>2, <2>1 DEF BranchesFit, Height
<1>9. \A m \in Numbers : tasks'[m] \subseteq contexts'[m] \cup forgotten
    BY <1>1, <1>7 DEF TasksFit
<1>10. ASSUME NEW m \in Numbers, \A k \in Stored' : k < m PROVE tasks'[m] \subseteq forgotten
    <2>1. m \in Nat /\ n < m
        BY <1>5, <1>10, NumberFacts
    <2>2. \A k \in Stored : k < m
        BY <1>2, <1>5, <2>1, NumberFacts DEF n
    <2>3. Stored # {}
        BY <1>1, <1>2 DEF RecordsFit
    <2> QED
        BY <1>1, <1>5, <1>7, <2>1, <2>2, <2>3 DEF TasksFit
<1>11. ASSUME NEW m \in Stored', m - 1 \in Stored', Agrees(blocks[m], m)'
       PROVE  blocks'[m] \in tasks'[m] /\ tasks'[m] \subseteq {blocks'[m]} \cup forgotten
    <2>1. Agrees(blocks'[m], m)
        BY <1>2, <1>11 DEF Agrees, Height
    <2>2. CASE m = n
        BY <1>2, <1>4, <1>6, <1>7, <2>1, <2>2
    <2>3. CASE m # n
        <3>1. m \in Stored /\ blocks'[m] = blocks[m] /\ m \in Numbers
            BY <1>2, <2>3, NumberFacts
        <3>2. m - 1 # n
            BY <1>2, <1>5, <3>1, NumberFacts DEF n
        <3>3. m - 1 \in Stored
            BY <1>2, <1>11, <3>2
        <3>4. blocks[m] \in tasks[m] /\ tasks[m] \subseteq {blocks[m]} \cup forgotten
            BY <1>1, <2>1, <3>1, <3>3 DEF TasksFit
        <3> QED
            BY <1>7, <2>3, <3>1, <3>4
    <2> QED
        BY <2>2, <2>3
<1>12. TasksFit'
    BY <1>2, <1>3, <1>9, <1>10, <1>11 DEF TasksFit
<1> QED
    BY <1>8, <1>12

LEMMA CancelTasks == ASSUME RecordInv, Quiet, QuietInv, CancelOrphan PROVE BranchesFit' /\ TasksFit'
<1> DEFINE n == Len(orphans[1])
<1>1. TypeOK /\ IInv /\ BranchesFit /\ TasksFit /\ RecordsFit /\ CancelFits
    BY DEF RecordInv, IInv, QuietInv, Quiet, ShelteredInv
<1>2. /\ Len(orphans) \in Nat /\ Len(orphans) >= 1 /\ n \in Numbers
      /\ pc = "cancel" /\ pc' \in {"idle", "cancel"}
      /\ Stored' = Stored \ {n} /\ \A m \in Stored' : blocks'[m] = blocks[m]
      /\ tasks' = [tasks EXCEPT ![n] = @ \ contexts[n]]
      /\ contexts' = [contexts EXCEPT ![n] = {}]
      /\ UNCHANGED <<setup, chain, branch, reorgs, crashes>>
    BY <1>1, CancelFacts
<1>0. forgotten' = forgotten
    BY DEF CancelOrphan
<1>3. 1 \in 1..Len(orphans)
    BY <1>2
<1>4. n \in Stored /\ \A m \in Stored : m <= n
    BY <1>1, <1>2, <1>3 DEF CancelFits
<1>5. /\ tasks'[n] \subseteq forgotten /\ \A m \in Numbers : m # n => tasks'[m] = tasks[m]
      /\ contexts'[n] = {} /\ \A m \in Numbers : m # n => contexts'[m] = contexts[m]
    <2>1. tasks[n] \ contexts[n] \subseteq forgotten
        BY <1>1, <1>2 DEF TasksFit
    <2> QED
        BY <1>1, <1>2, <2>1 DEF TypeOK
<1> HIDE DEF n
<1>6. n \in Nat
    BY <1>2, NumberFacts
<1>7. BranchesFit'
    <2>1. ASSUME NEW m \in Stored' PROVE Past(blocks[m])'
        <3>1. PICK h : h = blocks'[m] /\ Past(h)
            BY <1>1, <1>2 DEF BranchesFit
        <3>2. Past(h)'
            BY <1>2, <3>1 DEF Past, Height
        <3> QED
            BY <3>1, <3>2 DEF Past
    <2> QED
        BY <1>1, <1>2, <2>1 DEF BranchesFit, Height
<1>8. \A m \in Numbers : tasks'[m] \subseteq contexts'[m] \cup forgotten
    BY <1>1, <1>5 DEF TasksFit
\* Below the newest record there is no gap.
<1>9. ASSUME NEW a \in Stored', NEW m \in Numbers, \A k \in Stored' : k < m
      PROVE  tasks'[m] \subseteq forgotten
    <2>1. m \in Nat /\ a \in Nat /\ a < m /\ a \in Stored
        BY <1>2, <1>9, NumberFacts
    <2>2. CASE m = n
        BY <1>5, <2>2
    <2>3. CASE m < n
        <3>1. m \in Stored
            BY <1>1, <1>4, <1>6, <2>1, <2>3 DEF RecordsFit
        <3>2. m \in Stored'
            BY <1>2, <1>6, <2>1, <2>3, <3>1
        <3> QED
            BY <1>9, <2>1, <3>2
    <2>4. CASE n < m
        <3>1. \A k \in Stored : k < m
            BY <1>4, <1>6, <2>1, <2>4, NumberFacts
        <3> QED
            BY <1>1, <1>5, <1>6, <2>1, <2>4, <3>1 DEF TasksFit
    <2> QED
        BY <1>6, <2>1, <2>2, <2>3, <2>4
<1>10. ASSUME NEW m \in Stored', m - 1 \in Stored', Agrees(blocks[m], m)'
       PROVE  blocks'[m] \in tasks'[m] /\ tasks'[m] \subseteq {blocks'[m]} \cup forgotten
    <2>1. m \in Stored /\ m # n /\ m - 1 \in Stored /\ blocks'[m] = blocks[m] /\ m \in Numbers
        BY <1>2, <1>10, NumberFacts
    <2>2. Agrees(blocks[m], m)
        BY <1>2, <1>10, <2>1 DEF Agrees, Height
    <2> QED
        BY <1>1, <1>5, <2>1, <2>2 DEF TasksFit
<1>11. TasksFit'
    BY <1>0, <1>2, <1>8, <1>9, <1>10 DEF TasksFit
<1> QED
    BY <1>7, <1>11

\* Steps that change neither the records nor the tasks.
LEMMA QuietStands ==
    ASSUME BranchesFit, TasksFit, blocks' = blocks, Stored' = Stored, tasks' = tasks,
           UNCHANGED <<chain, branch, reorgs>>, forgotten \subseteq forgotten',
           \A n \in Numbers : tasks[n] \subseteq contexts'[n] \cup forgotten',
           pc' \in {"stopped", "starting"} => \A n \in Numbers : tasks[n] \subseteq forgotten',
           pc' = "logs" => Past(block)'
    PROVE  BranchesFit' /\ TasksFit'
<1>1. ASSUME NEW m \in Stored PROVE Past(blocks[m])'
    BY <1>1 DEF BranchesFit, Past, Height
<1>2. \A m \in Stored : Agrees(blocks[m], m)' => Agrees(blocks[m], m)
    BY DEF Agrees, Height
<1>3. BranchesFit'
    BY <1>1 DEF BranchesFit, Height
<1>4. \A n \in Stored' :
          n - 1 \in Stored' /\ Agrees(blocks[n], n)' =>
              blocks'[n] \in tasks'[n] /\ tasks'[n] \subseteq {blocks'[n]} \cup forgotten'
    BY <1>2 DEF TasksFit
<1>5. Stored' # {} =>
          \A n \in Numbers : (\A m \in Stored' : m < n) => tasks'[n] \subseteq forgotten'
    BY DEF TasksFit
<1> QED
    BY <1>3, <1>4, <1>5 DEF TasksFit

LEMMA StartTasks ==
    ASSUME RecordInv, Quiet, QuietInv, StartFromLatest
    PROVE  BranchesFit' /\ TasksFit'
<1>1. TypeOK /\ IInv /\ BranchesFit /\ TasksFit
    BY DEF RecordInv, IInv, QuietInv
<1>2. /\ Stored = {} /\ pc = "starting" /\ forgotten' = forgotten
      /\ UNCHANGED <<setup, chain, branch, reorgs, crashes, tasks, last, block, orphans>>
    BY <1>1, StartFromLatestFacts DEF StartFromLatest
<1>0. \A n \in Numbers : tasks'[n] \subseteq forgotten'
    BY <1>1, <1>2 DEF TasksFit
<1>3. CASE pc' = "stopped" /\ Stored' = {}
    BY <1>0, <1>1, <1>2, <1>3 DEF BranchesFit, TasksFit, Height
<1>4. CASE /\ pc' = "idle" /\ target \in Numbers /\ target <= Height
           /\ Stored' = {target} /\ blocks'[target] = HashAt(target)
    <2>1. PICK h : h = HashAt(target) /\ Past(h)
        BY <1>1, <1>4, HashAtPast
    <2>2. Past(h)'
        BY <1>2, <2>1 DEF Past, Height
    <2>3. \A m \in Stored' : Past(blocks[m])'
        BY <1>4, <2>1, <2>2 DEF Past
    <2>4. BranchesFit'
        BY <1>1, <1>2, <1>4, <2>3 DEF BranchesFit, Height
    <2>5. target - 1 # target
        BY <1>4, NumberFacts
    <2>6. TasksFit'
        BY <1>0, <1>4, <2>5 DEF TasksFit
    <2> QED
        BY <2>4, <2>6
<1> QED
    BY <1>1, <1>3, <1>4, StartFromLatestFacts

\* The process dies: what the store keeps of the tasks is forgotten.
LEMMA CrashTasks ==
    ASSUME RecordInv, Quiet, QuietInv, Crash
    PROVE  BranchesFit' /\ TasksFit'
<1>1. TypeOK /\ IInv /\ BranchesFit /\ TasksFit
    BY DEF RecordInv, IInv, QuietInv
<1>2. /\ pc' = "stopped" /\ UNCHANGED <<chain, branch, reorgs>>
      /\ forgotten' = forgotten \cup UNION {contexts[n] : n \in Numbers}
    BY DEF Crash
<1>3. \A n \in Numbers : tasks[n] \subseteq forgotten'
    BY <1>1, <1>2 DEF TasksFit
<1>4. CASE Durable
    <2>1. blocks' = blocks /\ tasks' = tasks /\ Stored' = Stored
        BY <1>4 DEF Crash, storeVars, Stored
    <2> QED
        BY <1>1, <1>2, <1>3, <2>1, QuietStands
<1>5. CASE ~Durable
    <2>1. Stored' = {} /\ tasks' = [n \in Numbers |-> {}]
        BY <1>5 DEF Crash, Stored
    <2>2. BranchesFit'
        BY <1>1, <1>2, <2>1 DEF BranchesFit, Height
    <2> QED
        BY <1>2, <2>1, <2>2 DEF TasksFit
<1> QED
    BY <1>4, <1>5

LEMMA QuietStep == RecordInv /\ QuietInv /\ [Next]_vars => QuietInv'
<1> SUFFICES ASSUME RecordInv, QuietInv, [Next]_vars, Quiet' PROVE BranchesFit' /\ TasksFit'
    BY DEF QuietInv
<1>1. Quiet /\ ~QueueFails
    BY QuietKept
<1>2. TypeOK /\ IInv /\ BranchesFit /\ TasksFit
    BY <1>1 DEF RecordInv, IInv, QuietInv
<1>3. /\ \A n \in Numbers : tasks[n] \subseteq contexts[n] \cup forgotten
      /\ pc \in {"stopped", "starting"} => \A n \in Numbers : tasks[n] \subseteq forgotten
    BY <1>2 DEF TasksFit
<1>4. CASE Start
    <2>1. /\ pc = "stopped" /\ pc' \in {"idle", "starting"}
          /\ UNCHANGED <<chain, branch, reorgs, blocks, tasks, forgotten>> /\ Stored' = Stored
        BY <1>4 DEF Start, chainVars, storeVars, Stored
    <2> QED
        BY <1>2, <1>3, <2>1, QuietStands
<1>5. CASE FetchBlock
    <2>1. /\ pc = "fetch" /\ block' = HashAt(Len(last) + 1) /\ Len(last) < Height /\ last \in Hashes
          /\ pc' \in {"logs", "walk"} /\ Stored' = Stored
          /\ UNCHANGED <<setup, chain, branch, reorgs, blocks, tasks, contexts, forgotten>>
        BY <1>2, <1>5 DEF FetchBlock, chainVars, storeVars, contextVars, Stored, IInv, PollFits
    <2>2. Len(last) + 1 \in Numbers /\ Len(last) + 1 <= Height
        <3>1. Len(last) \in Numbers /\ Len(chain) \in Numbers
            BY <1>2, <2>1, HashFacts DEF TypeOK
        <3> QED
            BY <2>1, <3>1, PollerAssumption DEF Numbers, Height
    <2>3. PICK h : h = block' /\ Past(h)
        BY <1>2, <2>1, <2>2, HashAtPast
    <2>4. Past(block)'
        BY <2>1, <2>3 DEF Past, Height
    <2> QED
        BY <1>2, <1>3, <2>1, <2>4, QuietStands
<1>6. CASE Poll \/ PollFails \/ FindOrphan \/ SearchFails
    <2>1. /\ pc' \in {"idle", "fetch", "walk"} /\ Stored' = Stored
          /\ UNCHANGED <<chain, branch, reorgs, blocks, tasks, contexts, forgotten>>
        BY <1>6 DEF Poll, PollFails, FindOrphan, SearchFails, chainVars, storeVars, contextVars, Stored
    <2> QED
        BY <1>2, <1>3, <2>1, QuietStands
<1>7. CASE FindForkPoint \/ FindUnknownParent \/ SearchEnds
    <2>1. /\ pc' \in {"idle", "cancel"}
          /\ UNCHANGED <<chain, branch, reorgs, tasks, contexts, forgotten>>
        BY <1>7 DEF FindForkPoint, FindUnknownParent, SearchEnds, AfterSearch, chainVars, contextVars
    <2>2. blocks' = blocks /\ Stored' = Stored
        BY <1>2, <1>7, SearchKeepsBlocks
    <2> QED
        BY <1>2, <1>3, <2>1, <2>2, QuietStands
<1>8. CASE UNCHANGED vars \/ \E expired \in SUBSET Numbers : cleanupContexts(expired)
    <2>1. UNCHANGED <<pc, block, chain, branch, reorgs, blocks, tasks>> /\ Stored' = Stored
        BY <1>8 DEF cleanupContexts, vars, chainVars, storeVars, pollerVars, Stored
    <2>2. pc' = "logs" => Past(block)'
        BY <1>2, <2>1 DEF BranchesFit, Past, Height
    <2>3. /\ forgotten \subseteq forgotten'
          /\ \A n \in Numbers : contexts[n] \subseteq contexts'[n] \cup forgotten'
        BY <1>8 DEF cleanupContexts, vars, contextVars
    <2> QED
        BY <1>2, <1>3, <2>1, <2>2, <2>3, QuietStands
<1> QED
    BY <1>1, <1>4, <1>5, <1>6, <1>7, <1>8, ChainQuiet, StartTasks, LogsTasks, CancelTasks, CrashTasks
    DEF Next, PollerStep

\* The tasks of a stored block that is canonical are that block's, and all of them, but for
\* tasks whose block context was dropped before CancelBlock (cleanupContexts, the end of the
\* process): for every length of the chain, of the history and of the search, both stores, any
\* number of reorganisations however deep, and crashes in the middle of a reconciliation.
THEOREM TasksMatchChainTheorem == Spec => []TasksMatchChain
<1>1. Init => QuietInv
    <2> SUFFICES ASSUME Init PROVE BranchesFit /\ TasksFit
        BY DEF QuietInv
    <2>1. /\ Stored = {} /\ branch = 0 /\ reorgs = 0 /\ pc = "stopped"
          /\ chain = [n \in 1..StartHeight |-> 0]
          /\ tasks = [n \in Numbers |-> {}] /\ contexts = [n \in Numbers |-> {}]
        BY DEF Init, Stored
    <2>2. \A i \in 1..Height : chain[i] <= reorgs
        <3>1. StartHeight \in Nat
            BY PollerAssumption
        <3>2. Len(chain) = StartHeight
            BY <2>1, <3>1
        <3> QED
            BY <2>1, <3>1, <3>2 DEF Height
    <2>3. BranchesFit
        <3>1. branch <= reorgs
            BY <2>1
        <3>2. pc # "logs"
            BY <2>1
        <3> QED
            BY <2>1, <2>2, <3>1, <3>2, Zenon DEF BranchesFit
    <2>4. TasksFit
        BY <2>1 DEF TasksFit
    <2> QED
        BY <2>3, <2>4
<1>2. ASSUME RecordInv, QuietInv PROVE TasksMatchChain
    <2> SUFFICES ASSUME Quiet, NEW n \in Stored, n - 1 \in Stored, Canonical(blocks[n])
                 PROVE  blocks[n] \in tasks[n] /\ tasks[n] \subseteq {blocks[n]} \cup forgotten
        BY DEF TasksMatchChain, Quiet
    <2>1. TypeOK /\ TasksFit
        BY <1>2 DEF QuietInv, RecordInv, IInv
    <2>2. /\ blocks[n] \in Seq(Branches) /\ Len(blocks[n]) = n /\ n \in Nat /\ n >= 1
          /\ chain \in Seq(Branches) /\ blocks[n] \in Hashes /\ n \in Numbers
        BY <2>1, HashFacts, NumberFacts DEF TypeOK, Stored
    <2>3. n <= Len(chain) /\ SubSeq(blocks[n], 1, n) = SubSeq(chain, 1, n)
        BY <2>2 DEF Canonical, IsPrefix
    <2>4. blocks[n] = SubSeq(blocks[n], 1, n)
        BY <2>2
    <2>5. n <= Height /\ blocks[n] = HashAt(n)
        BY <2>3, <2>4 DEF HashAt, Height
    <2>6. Agrees(blocks[n], n)
        BY <2>1, <2>2, <2>5, AgreesFacts DEF TypeOK
    <2> QED
        BY <2>1, <2>6 DEF TasksFit
<1> QED
    BY <1>1, <1>2, QuietStep, RecordInvariant, PTL DEF Spec
=============================================================================
