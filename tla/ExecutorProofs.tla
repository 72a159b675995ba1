--------------------------- MODULE ExecutorProofs ---------------------------
(***************************************************************************)
(* Proofs about Executor, for any AVSs, performers, tasks, calls, bounds   *)
(* and configurations.                                                     *)
(***************************************************************************)
EXTENDS Executor, FiniteSetTheorems, TLAPS

HandlerTable == [Calls -> [Attempts -> HandlerRecords]]

\* The handlers of an operation.
Fits(pc, op) ==
    /\ pc = "auth" => op \in {"deploy", "remove", "list"}
    /\ pc \in {"get", "store", "deploy", "promote", "save"} => op = "deploy"
    /\ pc \in {"find", "remove", "delete"} => op = "remove"
    /\ pc = "list" => op = "list"
    /\ pc \in {"check", "run", "exec", "mark", "return"} => op = "submit"

\* Handlers follow the attempts that were made, do what their call asks for, and work only
\* while the process serves; a deployment that is under way has its performer.
HandlersFit ==
    /\ \A c \in Calls : call[c].pc \in {"idle", "token"} => call[c].attempt = 0 /\ token[c] = "none"
    /\ \A c \in Calls : call[c].pc = "token" => call[c].req.op # "submit"
    /\ \A c \in Calls : call[c].pc = "waiting" => call[c].attempt # 0
    /\ \A c \in Calls, i \in Attempts : i > call[c].attempt => handler[c][i] = NoHandler
    /\ \A c \in Calls, i \in Attempts : Fits(handler[c][i].pc, call[c].req.op)
    /\ \A c \in Calls, i \in Attempts :
          handler[c][i].pc \in {"promote", "save"} => handler[c][i].on \in Performers
    /\ phase # "serving" => \A c \in Calls, i \in Attempts : handler[c][i].pc \in Ended

\* Outside its phase each part of the process is at rest.
PhasesFit ==
    /\ phase # "rehydrating" => todo = {}
    /\ phase # "serving" => draining = {} /\ \A a \in Avss : next[a] = None

\* A container that does not exist belongs to nobody.
OwnersFit == \A p \in Performers : docker[p] = "absent" <=> owner[p] = None

-----------------------------------------------------------------------------
(* Handlers *)

\* One entry of the table of handlers changes.
Updated(c, i, h) ==
    /\ handler' \in HandlerTable
    /\ handler'[c][i] = h
    /\ \A d \in Calls, j \in Attempts : d # c \/ j # i => handler'[d][j] = handler[d][j]

LEMMA UpdateFacts ==
    ASSUME TypeOK, NEW c \in Calls, NEW i \in Attempts, NEW h \in HandlerRecords,
           handler' = [handler EXCEPT ![c][i] = h]
    PROVE  Updated(c, i, h)
<1>1. handler \in HandlerTable
    BY DEF TypeOK, HandlerTable
<1>2. [handler[c] EXCEPT ![i] = h] \in [Attempts -> HandlerRecords]
    BY <1>1 DEF HandlerTable
<1> QED
    BY <1>1, <1>2 DEF Updated, HandlerTable

\* The pc that Goto leaves: the error of an attempt that was given up is not heard.
LEMMA GotoFacts ==
    ASSUME TypeOK, NEW c \in Calls, NEW i \in Attempts, NEW pc \in HandlerPcs, Goto(c, i, pc)
    PROVE  \E h \in HandlerRecords :
              /\ Updated(c, i, h)
              /\ h.pc = pc \/ (pc \in {"refused", "internal"} /\ h.pc = "dead")
              /\ h.on = IF pc \in Ended THEN None ELSE handler[c][i].on
              /\ h.authed = handler[c][i].authed
<1> DEFINE heard == call[c].pc = "waiting" /\ call[c].attempt = i
           x == IF pc \in {"refused", "internal"} /\ ~heard THEN "dead" ELSE pc
           y == IF pc \in Ended THEN None ELSE handler[c][i].on
           h == [[handler[c][i] EXCEPT !.pc = x] EXCEPT !.on = y]
<1>1. handler[c][i] \in HandlerRecords
    BY DEF TypeOK
<1>2. x \in HandlerPcs /\ y \in Performers \cup {None}
    BY <1>1 DEF HandlerRecords, HandlerPcs, Ended
<1>3. handler' = [handler EXCEPT ![c][i].pc = x, ![c][i].on = y]
    BY DEF Goto
<1>4. x = pc \/ (pc \in {"refused", "internal"} /\ x = "dead")
    OBVIOUS
<1>5. y = IF pc \in Ended THEN None ELSE handler[c][i].on
    OBVIOUS
<1> HIDE DEF x, y
<1>6. h \in HandlerRecords
    BY <1>1, <1>2 DEF HandlerRecords
<1>7. h.pc = x /\ h.on = y /\ h.authed = handler[c][i].authed
    BY <1>1 DEF HandlerRecords
<1>8. handler \in [Calls -> [Attempts -> HandlerRecords]]
    BY DEF TypeOK
<1>9. handler' = [handler EXCEPT ![c][i] = h]
    BY <1>3, <1>8
<1> HIDE DEF h
<1>10. Updated(c, i, h)
    BY <1>6, <1>9, UpdateFacts
<1> QED
    BY <1>4, <1>5, <1>6, <1>7, <1>10

\* The handler of an attempt that has just arrived.
Arrived(first) == [NoHandler EXCEPT !.pc = first]

\* An attempt arrives at a process that serves, and is lost otherwise.
LEMMA ArriveFacts ==
    ASSUME TypeOK, NEW c \in Calls, NEW i \in Attempts, NEW first \in {"auth", "check"},
           Arrive(c, i, first)
    PROVE  /\ Arrived(first).pc = first /\ Arrived(first).on = None /\ ~Arrived(first).authed
           /\ \/ phase # "serving" /\ handler' = handler
              \/ phase = "serving" /\ Updated(c, i, Arrived(first))
<1>1. NoHandler \in HandlerRecords /\ NoHandler.on = None /\ ~NoHandler.authed
    BY DEF NoHandler, HandlerRecords, HandlerPcs, Ended
<1>2. first \in HandlerPcs
    BY DEF HandlerPcs
<1>3. Arrived(first) \in HandlerRecords /\ Arrived(first).pc = first
    BY <1>1, <1>2 DEF Arrived, HandlerRecords
<1>4. Arrived(first).on = NoHandler.on /\ Arrived(first).authed = NoHandler.authed
    BY <1>1 DEF Arrived, HandlerRecords
<1>5. ~Arrived(first).authed /\ Arrived(first).on = None
    BY <1>1, <1>4
<1> QED
    BY <1>3, <1>5, UpdateFacts DEF Arrive, Arrived

-----------------------------------------------------------------------------
(* Calls *)

\* One call goes on: its request stays what it is.
CallUpdated(c, pc, n) ==
    /\ call' \in [Calls -> CallRecords]
    /\ call'[c].pc = pc /\ call'[c].attempt = n
    /\ call'[c].req = call[c].req
    /\ \A d \in Calls : d # c => call'[d] = call[d]

\* A call, its request and the number of its attempts.
LEMMA CallFacts ==
    ASSUME TypeOK, NEW c \in Calls
    PROVE  /\ call[c] \in CallRecords /\ call[c].req \in Requests
           /\ call[c].attempt \in 0 .. MaxAttempts
           /\ call[c].pc \in {"idle", "token", "waiting", "ended"}
<1>1. call[c] \in CallRecords
    BY DEF TypeOK
<1> QED
    BY <1>1 DEF CallRecords

\* What each operation's request names.
LEMMA RequestFacts ==
    ASSUME NEW req \in Requests
    PROVE  /\ req.op \in {"deploy", "remove", "list", "submit"}
           /\ req.op \in {"deploy", "submit"} => req.avs \in Avss
           /\ req.op = "remove" => req.id \in Performers
           /\ req.op = "submit" => req.id \in Tasks
BY DEF Requests

LEMMA CallPc ==
    ASSUME TypeOK, NEW c \in Calls, NEW pc \in {"idle", "token", "waiting", "ended"},
           call' = [call EXCEPT ![c].pc = pc]
    PROVE  CallUpdated(c, pc, call[c].attempt)
<1> DEFINE r == [call[c] EXCEPT !.pc = pc]
<1>1. call[c] \in CallRecords /\ call \in [Calls -> CallRecords]
    BY DEF TypeOK
<1>2. r \in CallRecords
    BY <1>1 DEF CallRecords
<1>3. r.pc = pc /\ r.attempt = call[c].attempt /\ r.req = call[c].req
    BY <1>1 DEF CallRecords
<1>4. call' = [call EXCEPT ![c] = r]
    BY <1>1
<1> HIDE DEF r
<1> QED
    BY <1>1, <1>2, <1>3, <1>4 DEF CallUpdated

LEMMA CallAgain ==
    ASSUME TypeOK, NEW c \in Calls, call[c].attempt < MaxAttempts,
           call' = [call EXCEPT ![c].attempt = @ + 1]
    PROVE  CallUpdated(c, call[c].pc, call[c].attempt + 1)
<1> DEFINE r == [call[c] EXCEPT !.attempt = call[c].attempt + 1]
<1>1. call[c] \in CallRecords /\ call \in [Calls -> CallRecords]
    BY DEF TypeOK
<1>2. call[c].attempt + 1 \in 0 .. MaxAttempts
    BY CallFacts, ExecutorConstants
<1>3. r \in CallRecords
    BY <1>1, <1>2 DEF CallRecords
<1>4. r.pc = call[c].pc /\ r.attempt = call[c].attempt + 1 /\ r.req = call[c].req
    BY <1>1 DEF CallRecords
<1>5. call' = [call EXCEPT ![c] = r]
    BY <1>1
<1> HIDE DEF r
<1> QED
    BY <1>1, <1>3, <1>4, <1>5 DEF CallUpdated

LEMMA CallStarts ==
    ASSUME TypeOK, NEW c \in Calls,
           call' = [call EXCEPT ![c].pc = "waiting", ![c].attempt = 1]
    PROVE  CallUpdated(c, "waiting", 1)
<1> DEFINE r == [[call[c] EXCEPT !.pc = "waiting"] EXCEPT !.attempt = 1]
<1>1. call[c] \in CallRecords /\ call \in [Calls -> CallRecords]
    BY DEF TypeOK
<1>2. 1 \in 0 .. MaxAttempts
    BY ExecutorConstants
<1>3. r \in CallRecords
    BY <1>1, <1>2 DEF CallRecords
<1>4. r.pc = "waiting" /\ r.attempt = 1 /\ r.req = call[c].req
    BY <1>1 DEF CallRecords
<1>5. call' = [call EXCEPT ![c] = r]
    BY <1>1
<1> HIDE DEF r
<1> QED
    BY <1>1, <1>3, <1>4, <1>5 DEF CallUpdated

\* The handler's first step for a request.
First(req) == IF req.op = "submit" THEN "check" ELSE "auth"

\* A retry sends the same request once more, or ends the call.
LEMMA RetryFacts ==
    ASSUME TypeOK, HandlersFit, NEW c \in Calls, call[c].pc = "waiting", Retry(c)
    PROVE  \/ /\ call[c].attempt + 1 \in Attempts
              /\ CallUpdated(c, "waiting", call[c].attempt + 1)
              /\ \/ phase # "serving" /\ handler' = handler
                 \/ /\ phase = "serving"
                    /\ Updated(c, call[c].attempt + 1, Arrived(First(call[c].req)))
           \/ CallUpdated(c, "ended", call[c].attempt) /\ handler' = handler
<1>1. CASE c \in Retrying /\ call[c].attempt < MaxAttempts
    <2>1. call[c].attempt + 1 \in Attempts
        BY <1>1, CallFacts, ExecutorConstants DEF Attempts
    <2>2. CallUpdated(c, "waiting", call[c].attempt + 1)
        BY <1>1, CallAgain DEF Retry
    <2>3. Arrive(c, call[c].attempt + 1, First(call[c].req)) /\ First(call[c].req) \in {"auth", "check"}
        BY <1>1 DEF Retry, First
    <2> QED
        BY <2>1, <2>2, <2>3, ArriveFacts
<1>2. CASE ~(c \in Retrying /\ call[c].attempt < MaxAttempts)
    BY <1>2, CallPc DEF Retry
<1> QED
    BY <1>1, <1>2

-----------------------------------------------------------------------------
(* Types *)

Tokens == [Calls -> {"none", "issued", "void"}]

\* Only the clients, the tokens and the handlers move.
LEMMA TypeFrame ==
    ASSUME TypeOK, handler' \in HandlerTable, call' \in [Calls -> CallRecords], token' \in Tokens,
           UNCHANGED <<proc, places, docker, store>>
    PROVE  TypeOK'
BY DEF TypeOK, HandlerTable, Tokens, proc, places, store

\* Wherever a handler goes, the table of handlers stays well typed.
LEMMA GotoType ==
    ASSUME TypeOK, NEW c \in Calls, NEW i \in Attempts, NEW pc \in HandlerPcs, Goto(c, i, pc)
    PROVE  handler' \in HandlerTable
BY GotoFacts DEF Updated

\* The steps of a handler are steps.
LEMMA Pcs == {"none", "dead", "ok", "refused", "internal", "auth", "get", "store", "deploy",
              "promote", "save", "find", "remove", "delete", "list", "check", "run", "exec",
              "mark", "return"} \subseteq HandlerPcs
BY DEF HandlerPcs, Ended, Replies

\* verifyAuth admits a call, and the handler of its operation goes on.
LEMMA AdmitFacts ==
    ASSUME TypeOK, HandlersFit, NEW c \in Calls, NEW i \in Attempts, NEW pc \in HandlerPcs,
           handler' = [handler EXCEPT ![c][i].authed = TRUE, ![c][i].pc = pc]
    PROVE  \E h \in HandlerRecords :
              Updated(c, i, h) /\ h.pc = pc /\ h.on = handler[c][i].on /\ h.authed
<1> DEFINE h == [[handler[c][i] EXCEPT !.authed = TRUE] EXCEPT !.pc = pc]
<1>1. handler[c][i] \in HandlerRecords /\ handler \in [Calls -> [Attempts -> HandlerRecords]]
    BY DEF TypeOK
<1>2. h \in HandlerRecords /\ h.pc = pc /\ h.on = handler[c][i].on /\ h.authed = TRUE
    BY <1>1 DEF HandlerRecords
<1>3. handler' = [handler EXCEPT ![c][i] = h]
    BY <1>1
<1> HIDE DEF h
<1>4. Updated(c, i, h)
    BY <1>2, <1>3, UpdateFacts
<1> QED
    BY <1>2, <1>4

\* What verifyAuth does to the token and the handler of an attempt.
LEMMA VerifyAuthFacts ==
    ASSUME TypeOK, HandlersFit, NEW c \in Calls, NEW i \in Attempts, VerifyAuth(c, i)
    PROVE  \E h \in HandlerRecords :
              /\ Updated(c, i, h)
              /\ Fits(h.pc, call[c].req.op)
              /\ h.pc \in {"get", "find", "list", "refused", "internal", "dead"}
              /\ h.authed = handler[c][i].authed \/ h.authed
              /\ \/ ~conf.auth /\ token' = token
                 \/ /\ token[c] = "issued" /\ token' = [token EXCEPT ![c] = "void"]
                 \/ /\ token' = [token EXCEPT ![c] = IF @ = "none" THEN "none" ELSE "void"]
                    /\ h.authed = handler[c][i].authed
<1>1. call[c].req.op \in {"deploy", "remove", "list"}
    BY DEF VerifyAuth, At, HandlersFit, Fits
<1> DEFINE to == CASE call[c].req.op = "deploy" -> "get"
                   [] call[c].req.op = "remove" -> "find"
                   [] call[c].req.op = "list" -> "list"
           pass == handler' = [handler EXCEPT ![c][i].authed = TRUE, ![c][i].pc = to]
<1>2. to \in {"get", "find", "list"} /\ to \in HandlerPcs /\ Fits(to, call[c].req.op)
    BY <1>1, Pcs DEF Fits
<1>3. \/ ~conf.auth /\ pass /\ UNCHANGED token
      \/ /\ UseChallengeToken(c)
         /\ \/ pass
            \/ \E pc \in {"refused", "internal"} : Goto(c, i, pc)
      \/ TokenExpired(c) /\ Goto(c, i, "refused")
    BY DEF VerifyAuth
<1> HIDE DEF to
<1>4. ASSUME pass
      PROVE  \E h \in HandlerRecords : /\ Updated(c, i, h) /\ Fits(h.pc, call[c].req.op)
                                       /\ h.pc \in {"get", "find", "list"} /\ h.authed
    <2>1. handler' = [handler EXCEPT ![c][i].authed = TRUE, ![c][i].pc = to]
        BY <1>4
    <2>2. \E h \in HandlerRecords :
             Updated(c, i, h) /\ h.pc = to /\ h.on = handler[c][i].on /\ h.authed
        BY <1>2, <2>1, AdmitFacts
    <2> QED
        BY <1>2, <2>2
<1>5. ASSUME NEW pc \in {"refused", "internal"}, Goto(c, i, pc)
      PROVE  \E h \in HandlerRecords : /\ Updated(c, i, h) /\ Fits(h.pc, call[c].req.op)
                                       /\ h.pc \in {"refused", "internal", "dead"}
                                       /\ h.authed = handler[c][i].authed
    BY <1>5, Pcs, GotoFacts DEF Fits
<1>6. CASE ~conf.auth /\ pass /\ UNCHANGED token
    BY <1>4, <1>6
<1>7. CASE UseChallengeToken(c) /\ pass
    BY <1>4, <1>7 DEF UseChallengeToken
<1>8. CASE UseChallengeToken(c) /\ (\E pc \in {"refused", "internal"} : Goto(c, i, pc))
    BY <1>5, <1>8 DEF UseChallengeToken
<1>9. CASE TokenExpired(c) /\ Goto(c, i, "refused")
    BY <1>5, <1>9 DEF TokenExpired
<1> QED
    BY <1>3, <1>6, <1>7, <1>8, <1>9

\* The handler and the call of an attempt are there, and so is what its request names.
LEMMA AtFacts ==
    ASSUME TypeOK, HandlersFit, NEW c \in Calls, NEW i \in Attempts
    PROVE  /\ handler[c][i] \in HandlerRecords /\ call[c].req \in Requests
           /\ Fits(handler[c][i].pc, call[c].req.op)
           /\ call[c].req.op \in {"deploy", "submit"} => call[c].req.avs \in Avss
           /\ call[c].req.op = "remove" => call[c].req.id \in Performers
           /\ call[c].req.op = "submit" => call[c].req.id \in Tasks
<1>1. handler[c][i] \in HandlerRecords
    BY DEF TypeOK
<1>2. call[c].req \in Requests
    BY CallFacts
<1> QED
    BY <1>1, <1>2, RequestFacts DEF HandlersFit

\* A deployment under way has a performer.
LEMMA OnFacts ==
    ASSUME TypeOK, HandlersFit, NEW c \in Calls, NEW i \in Attempts,
           handler[c][i].pc \in {"promote", "save"}
    PROVE  handler[c][i].on \in Performers
BY DEF HandlersFit

\* The client's steps keep the calls, the handlers and the tokens well typed.
LEMMA ClientType == ASSUME TypeOK, HandlersFit, NEW c \in Calls, Client(c) PROVE TypeOK'
<1>a. handler \in HandlerTable /\ call \in [Calls -> CallRecords] /\ token \in Tokens
    BY DEF TypeOK, HandlerTable, Tokens
<1>1. ASSUME NEW req \in Requests, NEW signed \in {"nil", "operator", "other"},
             CallBegins(c, req, signed)
      PROVE  TypeOK'
    <2>1. \A n \in 0 .. 1, pc \in {"waiting", "token"} :
             [req |-> req, signed |-> signed, attempt |-> n, pc |-> pc] \in CallRecords
        BY ExecutorConstants DEF CallRecords
    <2>2. call' \in [Calls -> CallRecords]
        BY <1>1, <1>a, <2>1 DEF CallBegins
    <2>3. 1 \in Attempts
        BY ExecutorConstants DEF Attempts
    <2>4. handler' \in HandlerTable
        BY <1>1, <1>a, <2>3, ArriveFacts DEF CallBegins, Updated
    <2> QED
        BY <1>1, <1>a, <2>2, <2>4, TypeFrame DEF CallBegins
<1>2. ASSUME GetChallengeToken(c) PROVE TypeOK'
    <2>1. 1 \in Attempts
        BY ExecutorConstants DEF Attempts
    <2>2. handler' \in HandlerTable
        BY <1>2, <1>a, <2>1, ArriveFacts DEF GetChallengeToken, Updated
    <2>3. call' \in [Calls -> CallRecords]
        BY <1>2, CallStarts, CallPc DEF GetChallengeToken, CallUpdated
    <2>4. token' \in Tokens
        BY <1>2, <1>a DEF GetChallengeToken, Tokens
    <2> QED
        BY <1>2, <2>2, <2>3, <2>4, TypeFrame DEF GetChallengeToken
<1>3. ASSUME call[c].pc = "waiting", Retry(c)
      PROVE  handler' \in HandlerTable /\ call' \in [Calls -> CallRecords]
    BY <1>3, <1>a, RetryFacts DEF Updated, CallUpdated
<1>4. ASSUME ClientGivesUp(c) PROVE TypeOK'
    BY <1>3, <1>4, <1>a, TypeFrame DEF ClientGivesUp
<1>5. ASSUME ClientReceives(c) PROVE TypeOK'
    <2>1. CASE Retry(c)
        BY <1>3, <1>5, <1>a, <2>1, TypeFrame DEF ClientReceives
    <2>2. CASE ~Retry(c)
        <3>1. call[c].attempt \in Attempts
            BY <1>5, CallFacts, ExecutorConstants DEF ClientReceives, HandlersFit, Attempts
        <3> DEFINE n == call[c].attempt
                   pc == IF handler[c][n].pc = "ok" THEN "ok" ELSE "dead"
                   h == [handler[c][n] EXCEPT !.pc = pc]
        <3>2. handler[c][n] \in HandlerRecords /\ pc \in HandlerPcs
            BY <3>1, Pcs DEF TypeOK
        <3>3. handler' = [handler EXCEPT ![c][n] = h]
            BY <1>5, <1>a, <2>2, <3>1 DEF ClientReceives, HandlerTable
        <3>4. h \in HandlerRecords
            BY <3>2 DEF HandlerRecords
        <3> HIDE DEF h
        <3>5. handler' \in HandlerTable
            BY <3>1, <3>3, <3>4, UpdateFacts DEF Updated
        <3>6. call' \in [Calls -> CallRecords]
            BY <1>5, <2>2, CallPc DEF ClientReceives, CallUpdated
        <3> QED
            BY <1>5, <1>a, <3>5, <3>6, TypeFrame DEF ClientReceives
    <2> QED
        BY <2>1, <2>2
<1> QED
    BY <1>1, <1>2, <1>4, <1>5 DEF Client

\* The handlers' steps keep the state well typed.
LEMMA HandlerType ==
    ASSUME TypeOK, HandlersFit, PhasesFit, OwnersFit, NEW c \in Calls, NEW i \in Attempts,
           Management(c, i) \/ SubmitTask(c, i)
    PROVE  TypeOK'
<1> USE Pcs DEF proc, places, store
<1>a. handler \in HandlerTable /\ call \in [Calls -> CallRecords] /\ token \in Tokens
    BY DEF TypeOK, HandlerTable, Tokens
<1>b. /\ call[c].req.op \in {"deploy", "submit"} => call[c].req.avs \in Avss
      /\ call[c].req.op = "remove" => call[c].req.id \in Performers
      /\ call[c].req.op = "submit" => call[c].req.id \in Tasks
      /\ Fits(handler[c][i].pc, call[c].req.op)
    BY AtFacts
<1>c. todo = {} \/ phase # "serving"
    BY DEF PhasesFit
<1>1. ASSUME VerifyAuth(c, i) PROVE TypeOK'
    <2>1. handler' \in HandlerTable
        BY <1>1, VerifyAuthFacts DEF Updated
    <2>2. token' \in Tokens
        BY <1>1, <1>a DEF VerifyAuth, UseChallengeToken, TokenExpired, Tokens
    <2> QED
        BY <1>1, <1>a, <2>1, <2>2, TypeFrame DEF VerifyAuth
<1>2. ASSUME GetAvsPerformer(c, i) \/ DeployRefused(c, i) \/ FindPerformerByID(c, i)
             \/ ListPerformers(c, i) \/ CheckTask(c, i) \/ RunTask(c, i) \/ SignResult(c, i)
             \/ ReturnResult(c, i)
      PROVE  TypeOK'
    <2>1. \E pc \in HandlerPcs : Goto(c, i, pc)
        BY <1>2 DEF GetAvsPerformer, DeployRefused, FindPerformerByID, ListPerformers,
                    CheckTask, RunTask, SignResult, ReturnResult
    <2>2. handler' \in HandlerTable
        BY <2>1, GotoType
    <2> QED
        BY <1>2, <1>a, <2>2, TypeFrame
        DEF GetAvsPerformer, DeployRefused, FindPerformerByID, ListPerformers,
            CheckTask, RunTask, SignResult, ReturnResult
<1>3. ASSUME StoreAvsPerformer(c, i) PROVE TypeOK'
    <2>1. call[c].req.avs \in Avss
        BY <1>3, <1>b DEF StoreAvsPerformer, At, Fits
    <2>2. handler' \in HandlerTable
        BY <1>3, GotoType DEF StoreAvsPerformer
    <2> QED
        BY <1>3, <2>1, <2>2 DEF StoreAvsPerformer, TypeOK, HandlerTable
<1>4. ASSUME NEW p \in Performers, DeployBegins(c, i, p) PROVE TypeOK'
    <2> DEFINE a == call[c].req.avs
               h == [[handler[c][i] EXCEPT !.pc = "promote"] EXCEPT !.on = p]
    <2>1. a \in Avss /\ docker[p] = "absent" /\ owner[p] = None
        BY <1>4, <1>b DEF DeployBegins, At, Fits, OwnersFit
    <2>2. /\ busy' = [busy EXCEPT ![a] = <<c, i>>]
          /\ next' = [next EXCEPT ![a] = p]
          /\ owner' = [owner EXCEPT ![p] = a]
        BY <1>4 DEF DeployBegins
    <2>3. handler[c][i] \in HandlerRecords
        BY DEF TypeOK
    <2>4. h \in HandlerRecords
        BY <2>3 DEF HandlerRecords
    <2>5. handler' = [handler EXCEPT ![c][i] = h]
        BY <1>4, <1>a DEF DeployBegins, HandlerTable
    <2> HIDE DEF a, h
    <2>6. handler' \in HandlerTable
        BY <2>4, <2>5, UpdateFacts DEF Updated
    <2>7. \A b \in Avss, q \in Performers : q \in {current[b], next'[b]} => owner'[q] = b
        <3> SUFFICES ASSUME NEW b \in Avss, NEW q \in Performers, q \in {current[b], next'[b]}
                     PROVE  owner'[q] = b
            OBVIOUS
        <3>1. CASE q = p
            <4>1. None \notin Avss
                BY ExecutorConstants
            <4>2. q \notin {current[b], next[b]}
                BY <2>1, <3>1, <4>1 DEF TypeOK
            <4> QED
                BY <2>1, <2>2, <3>1, <4>2 DEF TypeOK
        <3>2. CASE q # p
            <4>1. q \in {current[b], next[b]}
                BY <2>1, <2>2, <3>2 DEF TypeOK
            <4> QED
                BY <2>1, <2>2, <3>2, <4>1 DEF TypeOK
        <3> QED
            BY <3>1, <3>2
    <2> QED
        BY <1>4, <2>1, <2>2, <2>6, <2>7 DEF DeployBegins, TypeOK, HandlerTable
<1>5. ASSUME DeployPromotes(c, i) PROVE TypeOK'
    <2> DEFINE a == call[c].req.avs
               p == handler[c][i].on
    <2>1. a \in Avss /\ p \in Performers
        BY <1>5, <1>b, OnFacts DEF DeployPromotes, At, Fits
    <2>2. handler' \in HandlerTable
        BY <1>5, GotoType DEF DeployPromotes
    <2>3. /\ next[a] = p
          /\ current' = [current EXCEPT ![a] = p]
          /\ next' = [next EXCEPT ![a] = None]
          /\ busy' = [busy EXCEPT ![a] = None]
          /\ draining' = draining \cup ({current[a]} \cap Performers)
          /\ promoted' = promoted \cup {p}
        BY <1>5 DEF DeployPromotes
    <2> HIDE DEF a, p
    <2>4. \A b \in Avss, q \in Performers : q \in {current'[b], next'[b]} => owner[q] = b
        BY <2>1, <2>3, ExecutorConstants DEF TypeOK
    <2>5. /\ current' \in [Avss -> Performers \cup {Unset, TypedNil}]
          /\ next' \in [Avss -> Performers \cup {None}]
          /\ busy' \in [Avss -> (Calls \X Attempts) \cup {None}]
        BY <2>1, <2>3 DEF TypeOK
    <2>6. draining' \subseteq Performers /\ promoted' \subseteq Performers
        BY <2>1, <2>3 DEF TypeOK
    <2> QED
        BY <1>5, <2>2, <2>4, <2>5, <2>6 DEF DeployPromotes, TypeOK, HandlerTable
<1>6. ASSUME DeployFails(c, i) PROVE TypeOK'
    <2> DEFINE a == call[c].req.avs
               p == handler[c][i].on
    <2>1. a \in Avss /\ p \in Performers
        BY <1>6, <1>b, OnFacts DEF DeployFails, At, Fits
    <2>2. handler' \in HandlerTable
        BY <1>6, GotoType DEF DeployFails
    <2>3. /\ busy' = [busy EXCEPT ![a] = None]
          /\ next' = next \/ next' = [next EXCEPT ![a] = None]
          /\ docker' = docker \/ \E left \in {"removed", "orphan"} : docker' = [docker EXCEPT ![p] = left]
        BY <1>6 DEF DeployFails
    <2> HIDE DEF a, p
    <2>4. \A b \in Avss, q \in Performers : q \in {current[b], next'[b]} => owner[q] = b
        BY <2>1, <2>3, ExecutorConstants DEF TypeOK
    <2>5. next' \in [Avss -> Performers \cup {None}] /\ busy' \in [Avss -> (Calls \X Attempts) \cup {None}]
        BY <2>1, <2>3 DEF TypeOK
    <2>6. docker' \in [Performers -> {"absent", "live", "removed", "orphan"}]
        BY <2>1, <2>3 DEF TypeOK
    <2> QED
        BY <1>6, <2>2, <2>4, <2>5, <2>6 DEF DeployFails, TypeOK, HandlerTable
<1>7. ASSUME SaveDeployed(c, i) PROVE TypeOK'
    <2>1. handler[c][i].on \in Performers
        BY <1>7, OnFacts DEF SaveDeployed, At
    <2>2. handler' \in HandlerTable
        BY <1>7, GotoType DEF SaveDeployed
    <2> QED
        BY <1>7, <2>1, <2>2 DEF SaveDeployed, SavePerformerState, TypeOK, HandlerTable
<1>8. ASSUME RemovePerformer(c, i) PROVE TypeOK'
    <2>1. handler' \in HandlerTable
        BY <1>8, GotoType DEF RemovePerformer
    <2> DEFINE p == call[c].req.id
    <2>2. p \in Performers
        BY <1>8, <1>b DEF RemovePerformer, At, Fits
    <2>3. CASE UNCHANGED <<current, next, docker>>
        BY <1>8, <2>1, <2>3 DEF RemovePerformer, TypeOK, HandlerTable
    <2>4. CASE ~UNCHANGED <<current, next, docker>>
        <3>1. PICK a \in Avss, left \in {"removed", "orphan"} :
                /\ current' = [current EXCEPT ![a] = IF @ = p THEN TypedNil ELSE @]
                /\ next' = [next EXCEPT ![a] = IF @ = p THEN None ELSE @]
                /\ docker' = [docker EXCEPT ![p] = left]
            BY <1>8, <2>4 DEF RemovePerformer
        <3> HIDE DEF p
        <3>2. \A b \in Avss, q \in Performers : q \in {current'[b], next'[b]} => owner[q] = b
            BY <3>1, ExecutorConstants DEF TypeOK
        <3>3. /\ current' \in [Avss -> Performers \cup {Unset, TypedNil}]
              /\ next' \in [Avss -> Performers \cup {None}]
              /\ docker' \in [Performers -> {"absent", "live", "removed", "orphan"}]
            BY <2>2, <3>1 DEF TypeOK
        <3> QED
            BY <1>8, <2>1, <3>2, <3>3 DEF RemovePerformer, TypeOK, HandlerTable
    <2> QED
        BY <2>3, <2>4
<1>9. ASSUME DeleteRemoved(c, i) PROVE TypeOK'
    <2>1. handler' \in HandlerTable
        BY <1>9, GotoType DEF DeleteRemoved
    <2> QED
        BY <1>9, <1>c, <2>1 DEF DeleteRemoved, At, DeletePerformerState, TypeOK, HandlerTable
<1>10. ASSUME MarkTask(c, i) PROVE TypeOK'
    <2>1. handler' \in HandlerTable
        BY <1>10, GotoType DEF MarkTask
    <2>2. call[c].req.id \in Tasks
        BY <1>10, <1>b DEF MarkTask, At, Fits
    <2> QED
        BY <1>10, <2>1, <2>2 DEF MarkTask, MarkTaskProcessed, TypeOK, HandlerTable
<1> QED
    BY <1>1, <1>2, <1>3, <1>4, <1>5, <1>6, <1>7, <1>8, <1>9, <1>10 DEF Management, SubmitTask

\* The end of the process keeps the handlers' records, with nothing in their hands.
LEMMA EndFacts ==
    ASSUME TypeOK, ProcessEnds
    PROVE  /\ handler' \in HandlerTable
           /\ \A c \in Calls, i \in Attempts :
                 /\ handler'[c][i].pc = IF handler[c][i].pc \in Ended THEN handler[c][i].pc ELSE "dead"
                 /\ handler'[c][i].on = None
                 /\ handler'[c][i].authed = handler[c][i].authed
<1> DEFINE to(c, i) == IF handler[c][i].pc \in Ended THEN handler[c][i].pc ELSE "dead"
           h(c, i) == [[handler[c][i] EXCEPT !.pc = to(c, i)] EXCEPT !.on = None]
<1>1. \A c \in Calls, i \in Attempts : handler[c][i] \in HandlerRecords
    BY DEF TypeOK
<1>2. \A c \in Calls, i \in Attempts : to(c, i) \in HandlerPcs
    BY <1>1, Pcs DEF HandlerRecords
<1>3. handler' = [c \in Calls |-> [i \in Attempts |-> h(c, i)]]
    BY DEF ProcessEnds
<1> HIDE DEF to
<1>4. ASSUME NEW c \in Calls, NEW i \in Attempts
      PROVE  /\ h(c, i) \in HandlerRecords /\ h(c, i).pc = to(c, i) /\ h(c, i).on = None
             /\ h(c, i).authed = handler[c][i].authed
    BY <1>1, <1>2 DEF HandlerRecords
<1> HIDE DEF h
<1> QED
    BY <1>3, <1>4 DEF HandlerTable, to

\* The process's own steps keep the state well typed.
LEMMA ProcessType ==
    ASSUME TypeOK, HandlersFit, PhasesFit, OwnersFit,
           \/ NewExecutor \/ RehydrationEnds \/ Run \/ Crash \/ Shutdown
           \/ \E p \in Performers : RehydratePerformer(p) \/ DrainRemoves(p)
           \/ \E a \in Avss, p \in Performers : DeployConfigured(a, p)
    PROVE  TypeOK'
<1> USE DEF proc, places, store
<1>1. ASSUME NewExecutor \/ RehydrationEnds \/ Run PROVE TypeOK'
    BY <1>1 DEF NewExecutor, RehydrationEnds, Run, ListPerformerStates, TypeOK
<1>2. ASSUME ProcessEnds, docker' \in [Performers -> {"absent", "live", "removed", "orphan"}]
      PROVE  TypeOK'
    <2>1. handler' \in HandlerTable
        BY <1>2, EndFacts
    <2>2. stops' \in 0 .. MaxStops
        <3>1. stops \in 0 .. MaxStops /\ stops < MaxStops /\ stops' = stops + 1
            BY <1>2 DEF ProcessEnds, TypeOK
        <3>2. MaxStops \in Nat
            BY ExecutorConstants
        <3> QED
            BY <3>1, <3>2
    <2>3. token' \in Tokens
        BY <1>2 DEF ProcessEnds, TypeOK, Tokens
    <2>4. \A a \in Avss, p \in Performers : p \notin {current'[a], next'[a]}
        BY <1>2, ExecutorConstants DEF ProcessEnds
    <2>5. saved' \subseteq Performers
        BY <1>2 DEF ProcessEnds, Reopened, TypeOK
    <2> QED
        BY <1>2, <2>1, <2>2, <2>3, <2>4, <2>5 DEF ProcessEnds, TypeOK, HandlerTable, Tokens
<1>3. ASSUME Crash \/ Shutdown PROVE TypeOK'
    BY <1>2, <1>3 DEF Crash, Shutdown, TypeOK
<1>4. ASSUME NEW p \in Performers, RehydratePerformer(p) PROVE TypeOK'
    <2>1. CASE UNCHANGED <<known, current>>
        BY <1>4, <2>1 DEF RehydratePerformer, DeletePerformerState, TypeOK
    <2>2. CASE ~UNCHANGED <<known, current>>
        <3>1. /\ docker[p] = "live" /\ known' = known \cup {owner[p]} /\ saved' = saved
              /\ current' = [current EXCEPT ![owner[p]] = p]
            BY <1>4, <2>2 DEF RehydratePerformer, Adoptable
        <3>2. owner[p] \in Avss
            BY <3>1 DEF TypeOK, OwnersFit
        <3>3. \A b \in Avss, q \in Performers : q \in {current'[b], next[b]} => owner[q] = b
            BY <3>1, <3>2 DEF TypeOK
        <3> QED
            BY <1>4, <3>1, <3>2, <3>3 DEF RehydratePerformer, TypeOK
    <2> QED
        BY <2>1, <2>2
<1>5. ASSUME NEW p \in Performers, DrainRemoves(p) PROVE TypeOK'
    BY <1>5 DEF DrainRemoves, TypeOK
<1>6. ASSUME NEW a \in Avss, NEW p \in Performers, DeployConfigured(a, p) PROVE TypeOK'
    <2>1. owner[p] = None /\ None \notin Avss
        BY <1>6, ExecutorConstants DEF DeployConfigured, OwnersFit
    <2>2. \A b \in Avss : p \notin {current[b], next[b]}
        BY <2>1 DEF TypeOK
    <2>3. \A b \in Avss, q \in Performers : q \in {current'[b], next[b]} => owner'[q] = b
        BY <1>6, <2>2 DEF DeployConfigured, TypeOK
    <2> QED
        BY <1>6, <2>3 DEF DeployConfigured, SavePerformerState, TypeOK
<1> QED
    BY <1>1, <1>3, <1>4, <1>5, <1>6

\* Every action keeps the state well typed.
LEMMA TypeStep == ASSUME TypeOK, HandlersFit, PhasesFit, OwnersFit, Next PROVE TypeOK'
BY ClientType, HandlerType, ProcessType DEF Next

-----------------------------------------------------------------------------
(* What a step of a client, and what a step of a handler, may do *)

\* A client's step moves its own call, adds the handler of an attempt that arrives or buries
\* one that answered; a request and a token change only before the first attempt.
ClientMoves(c) ==
    /\ UNCHANGED <<proc, places, docker, store>>
    /\ handler' \in HandlerTable /\ call' \in [Calls -> CallRecords]
    /\ \A d \in Calls : d # c => /\ call'[d] = call[d] /\ token'[d] = token[d]
                                 /\ \A j \in Attempts : handler'[d][j] = handler[d][j]
    /\ call[c].attempt = 0 \/ (call'[c].req = call[c].req /\ token'[c] = token[c])
    /\ call'[c].attempt >= call[c].attempt
    /\ call'[c].pc \in {"idle", "token"} => call'[c].attempt = 0 /\ token'[c] = "none"
    /\ call'[c].pc = "token" => call'[c].req.op # "submit"
    /\ call'[c].pc = "waiting" => call'[c].attempt # 0
    /\ \A j \in Attempts :
          \/ handler'[c][j] = handler[c][j]
          \/ /\ phase = "serving" /\ j > call[c].attempt /\ j <= call'[c].attempt
             /\ handler'[c][j] = Arrived(First(call'[c].req))
          \/ /\ j <= call[c].attempt /\ handler[c][j].pc # "ok" /\ handler'[c][j].pc = "dead"
             /\ handler'[c][j].authed = handler[c][j].authed

\* A handler's step moves itself, in a process that serves.
HandlerMoves(c, i, h) ==
    /\ phase = "serving" /\ UNCHANGED <<conf, phase, todo, strangers, call>>
    /\ handler[c][i].pc \notin Ended
    /\ Updated(c, i, h)
    /\ Fits(h.pc, call[c].req.op)
    /\ h.pc \in {"promote", "save"} => h.on \in Performers
    /\ \A d \in Calls : d # c => token'[d] = token[d]
    /\ token[c] \in {"none", "void"} => token'[c] = token[c]
    /\ \/ ~conf.auth
       \/ h.authed = handler[c][i].authed
       \/ token[c] = "issued" /\ token'[c] = "void"

\* The end of a call, or its next attempt.
LEMMA RetryMoves ==
    ASSUME TypeOK, HandlersFit, NEW c \in Calls, call[c].pc = "waiting", Retry(c),
           UNCHANGED <<proc, places, docker, store, token>>
    PROVE  ClientMoves(c)
<1>1. call[c].attempt \in Nat /\ call[c].attempt # 0
    BY CallFacts, ExecutorConstants DEF HandlersFit
<1>2. handler \in HandlerTable
    BY DEF TypeOK, HandlerTable
<1>3. ASSUME CallUpdated(c, "waiting", call[c].attempt + 1), handler' = handler
      PROVE  ClientMoves(c)
    BY <1>1, <1>2, <1>3 DEF ClientMoves, CallUpdated
<1>4. ASSUME CallUpdated(c, "ended", call[c].attempt), handler' = handler
      PROVE  ClientMoves(c)
    BY <1>1, <1>2, <1>4 DEF ClientMoves, CallUpdated
<1>5. ASSUME call[c].attempt + 1 \in Attempts, CallUpdated(c, "waiting", call[c].attempt + 1),
             phase = "serving", Updated(c, call[c].attempt + 1, Arrived(First(call[c].req)))
      PROVE  ClientMoves(c)
    <2>1. ASSUME NEW j \in Attempts
          PROVE  \/ handler'[c][j] = handler[c][j]
                 \/ /\ j > call[c].attempt /\ j <= call'[c].attempt
                    /\ handler'[c][j] = Arrived(First(call'[c].req))
        <3>1. CASE j = call[c].attempt + 1
            BY <1>1, <1>5, <3>1 DEF Updated, CallUpdated
        <3>2. CASE j # call[c].attempt + 1
            BY <1>5, <3>2 DEF Updated
        <3> QED
            BY <3>1, <3>2
    <2>2. \A d \in Calls : d # c => \A j \in Attempts : handler'[d][j] = handler[d][j]
        BY <1>5 DEF Updated
    <2>3. handler' \in HandlerTable
        BY <1>5 DEF Updated
    <2> QED
        BY <1>1, <1>5, <2>1, <2>2, <2>3 DEF ClientMoves, CallUpdated
<1> QED
    BY <1>3, <1>4, <1>5, RetryFacts

LEMMA ClientFacts == ASSUME TypeOK, HandlersFit, NEW c \in Calls, Client(c) PROVE ClientMoves(c)
<1>a. handler \in HandlerTable /\ call \in [Calls -> CallRecords] /\ token \in Tokens
    BY DEF TypeOK, HandlerTable, Tokens
<1>b. 1 \in Attempts
    BY ExecutorConstants DEF Attempts
<1>1. ASSUME NEW req \in Requests, NEW signed \in {"nil", "operator", "other"},
             CallBegins(c, req, signed)
      PROVE  ClientMoves(c)
    <2> DEFINE r(n, pc) == [req |-> req, signed |-> signed, attempt |-> n, pc |-> pc]
    <2>1. \A n \in 0 .. 1, pc \in {"waiting", "token"} :
             /\ r(n, pc) \in CallRecords
             /\ r(n, pc).req = req /\ r(n, pc).attempt = n /\ r(n, pc).pc = pc
        BY ExecutorConstants DEF CallRecords
    <2>2. call[c].attempt = 0 /\ token[c] = "none" /\ UNCHANGED <<proc, places, docker, store, token>>
        BY <1>1 DEF CallBegins, HandlersFit
    <2>3. CASE signed = "nil"
        <3>1. call' = [call EXCEPT ![c] = r(1, "waiting")] /\ Arrive(c, 1, First(req))
            BY <1>1, <2>3 DEF CallBegins, First
        <3> HIDE DEF r
        <3>2. /\ call' \in [Calls -> CallRecords] /\ call'[c].pc = "waiting"
              /\ call'[c].req = req /\ call'[c].attempt = 1
              /\ \A d \in Calls : d # c => call'[d] = call[d]
            BY <1>a, <2>1, <3>1
        <3>3. First(req) \in {"auth", "check"}
            BY DEF First
        <3>4. \/ handler' = handler
              \/ phase = "serving" /\ Updated(c, 1, Arrived(First(req)))
            BY <1>b, <3>1, <3>3, ArriveFacts
        <3>5. CASE handler' = handler
            BY <1>a, <2>2, <3>2, <3>5 DEF ClientMoves
        <3>6. CASE phase = "serving" /\ Updated(c, 1, Arrived(First(req)))
            BY <1>a, <1>b, <2>2, <3>2, <3>6 DEF ClientMoves, Updated
        <3> QED
            BY <3>4, <3>5, <3>6
    <2>4. CASE signed # "nil"
        <3>1. call' = [call EXCEPT ![c] = r(0, "token")] /\ handler' = handler
            BY <1>1, <2>4 DEF CallBegins
        <3> HIDE DEF r
        <3>2. /\ call' \in [Calls -> CallRecords] /\ call'[c].pc = "token"
              /\ call'[c].req = req /\ call'[c].attempt = 0
              /\ \A d \in Calls : d # c => call'[d] = call[d]
            BY <1>a, <2>1, <3>1
        <3>3. req.op # "submit"
            BY <1>1, <2>4 DEF CallBegins
        <3> QED
            BY <1>a, <2>2, <3>1, <3>2, <3>3 DEF ClientMoves
    <2> QED
        BY <2>3, <2>4
<1>2. ASSUME GetChallengeToken(c) PROVE ClientMoves(c)
    <2>1. /\ call[c].attempt = 0 /\ phase = "serving" /\ UNCHANGED <<proc, places, docker, store>>
          /\ \A d \in Calls : d # c => token'[d] = token[d]
        BY <1>2, <1>a DEF GetChallengeToken, HandlersFit, Tokens
    <2>2. CASE conf.auth
        <3>1. CallUpdated(c, "waiting", 1)
            BY <1>2, <2>2, CallStarts DEF GetChallengeToken
        <3>2. Arrive(c, 1, "auth") /\ call[c].pc = "token"
            BY <1>2, <2>2 DEF GetChallengeToken
        <3>3. phase = "serving" /\ Updated(c, 1, Arrived("auth"))
            BY <1>b, <2>1, <3>2, ArriveFacts
        <3>4. "auth" = First(call'[c].req)
            BY <3>1, <3>2 DEF First, HandlersFit, CallUpdated
        <3> QED
            BY <1>a, <1>b, <2>1, <3>1, <3>3, <3>4 DEF ClientMoves, Updated, CallUpdated
    <2>3. CASE ~conf.auth
        <3>1. CallUpdated(c, "ended", call[c].attempt) /\ handler' = handler
            BY <1>2, <2>3, CallPc DEF GetChallengeToken
        <3>2. token' = token /\ call[c].attempt >= 0
            BY <1>2, <2>1, <2>3 DEF GetChallengeToken
        <3> QED
            BY <1>a, <2>1, <3>1, <3>2 DEF ClientMoves, CallUpdated
    <2> QED
        BY <2>2, <2>3
<1>3. ASSUME ClientGivesUp(c) PROVE ClientMoves(c)
    BY <1>3, RetryMoves DEF ClientGivesUp
<1>4. ASSUME ClientReceives(c) PROVE ClientMoves(c)
    <2>1. CASE Retry(c)
        BY <1>4, <2>1, RetryMoves DEF ClientReceives
    <2>2. CASE ~Retry(c)
        <3> DEFINE n == call[c].attempt
                   pc == IF handler[c][n].pc = "ok" THEN "ok" ELSE "dead"
                   h == [handler[c][n] EXCEPT !.pc = pc]
        <3>1. n \in Attempts /\ n \in Nat /\ n # 0
            BY <1>4, CallFacts, ExecutorConstants DEF ClientReceives, HandlersFit, Attempts
        <3>2. handler[c][n] \in HandlerRecords /\ pc \in HandlerPcs
            BY <3>1, Pcs DEF TypeOK
        <3>3. handler' = [handler EXCEPT ![c][n] = h]
            BY <1>4, <1>a, <2>2, <3>1 DEF ClientReceives, HandlerTable
        <3>4. h \in HandlerRecords /\ h.pc = pc /\ h.authed = handler[c][n].authed
            BY <3>2 DEF HandlerRecords
        <3>5. handler[c][n].pc = "ok" => h = handler[c][n]
            BY <3>2 DEF HandlerRecords
        <3> HIDE DEF h
        <3>6. Updated(c, n, h)
            BY <3>1, <3>3, <3>4, UpdateFacts
        <3>7. CallUpdated(c, "ended", n) /\ UNCHANGED <<proc, places, docker, store, token>>
            BY <1>4, <2>2, CallPc DEF ClientReceives
        <3> HIDE DEF n
        <3>8. ASSUME NEW j \in Attempts
              PROVE  \/ handler'[c][j] = handler[c][j]
                     \/ /\ j <= n /\ handler[c][j].pc # "ok" /\ handler'[c][j].pc = "dead"
                        /\ handler'[c][j].authed = handler[c][j].authed
            BY <3>1, <3>4, <3>5, <3>6 DEF Updated
        <3> QED
            BY <3>1, <3>6, <3>7, <3>8 DEF ClientMoves, Updated, CallUpdated, n
    <2> QED
        BY <2>1, <2>2
<1> QED
    BY <1>1, <1>2, <1>3, <1>4 DEF Client
\* A handler that goes on at pc, if pc is a step of its operation.
LEMMA GotoMoves ==
    ASSUME TypeOK, HandlersFit, NEW c \in Calls, NEW i \in Attempts, NEW from \in HandlerPcs \ Ended,
           At(c, i, from), NEW pc \in HandlerPcs \ {"promote"}, Goto(c, i, pc),
           Fits(pc, call[c].req.op), pc = "save" => from = "promote",
           UNCHANGED <<proc, token, call>>
    PROVE  \E h \in HandlerRecords : HandlerMoves(c, i, h)
<1>1. PICK h \in HandlerRecords :
         /\ Updated(c, i, h)
         /\ h.pc = pc \/ (pc \in {"refused", "internal"} /\ h.pc = "dead")
         /\ h.on = IF pc \in Ended THEN None ELSE handler[c][i].on
         /\ h.authed = handler[c][i].authed
    BY GotoFacts
<1>2. Fits(h.pc, call[c].req.op)
    BY <1>1 DEF Fits
<1>3. h.pc \in {"promote", "save"} => h.on \in Performers
    BY <1>1, OnFacts DEF At, Ended, Replies
<1> QED
    BY <1>1, <1>2, <1>3 DEF HandlerMoves, At, proc

LEMMA HandlerFacts ==
    ASSUME TypeOK, HandlersFit, NEW c \in Calls, NEW i \in Attempts,
           Management(c, i) \/ SubmitTask(c, i)
    PROVE  \E h \in HandlerRecords : HandlerMoves(c, i, h)
<1> USE Pcs
<1>a. Fits(handler[c][i].pc, call[c].req.op)
    BY AtFacts
<1>b. {"auth", "get", "store", "deploy", "promote", "save", "find", "remove", "delete", "list",
       "check", "run", "exec", "mark", "return"} \cap Ended = {}
    BY DEF Ended, Replies
<1>c. token \in Tokens
    BY DEF TypeOK, Tokens
<1>1. ASSUME VerifyAuth(c, i) PROVE \E h \in HandlerRecords : HandlerMoves(c, i, h)
    <2>1. PICK h \in HandlerRecords :
              /\ Updated(c, i, h)
              /\ Fits(h.pc, call[c].req.op)
              /\ h.pc \in {"get", "find", "list", "refused", "internal", "dead"}
              /\ h.authed = handler[c][i].authed \/ h.authed
              /\ \/ ~conf.auth /\ token' = token
                 \/ /\ token[c] = "issued" /\ token' = [token EXCEPT ![c] = "void"]
                 \/ /\ token' = [token EXCEPT ![c] = IF @ = "none" THEN "none" ELSE "void"]
                    /\ h.authed = handler[c][i].authed
        BY <1>1, VerifyAuthFacts
    <2>2. /\ \A d \in Calls : d # c => token'[d] = token[d]
          /\ token[c] \in {"none", "void"} => token'[c] = token[c]
        BY <1>c, <2>1 DEF Tokens
    <2>3. \/ ~conf.auth
          \/ h.authed = handler[c][i].authed
          \/ token[c] = "issued" /\ token'[c] = "void"
        BY <1>c, <2>1 DEF Tokens
    <2> QED
        BY <1>1, <1>b, <2>1, <2>2, <2>3 DEF HandlerMoves, VerifyAuth, At, proc, store
<1>2. ASSUME NEW p \in Performers, DeployBegins(c, i, p)
      PROVE  \E h \in HandlerRecords : HandlerMoves(c, i, h)
    <2> DEFINE h == [[handler[c][i] EXCEPT !.pc = "promote"] EXCEPT !.on = p]
    <2>1. handler[c][i] \in HandlerRecords /\ handler \in HandlerTable
        BY DEF TypeOK, HandlerTable
    <2>2. h \in HandlerRecords /\ h.pc = "promote" /\ h.on = p
        BY <2>1 DEF HandlerRecords
    <2>3. h.authed = handler[c][i].authed
        BY <2>1 DEF HandlerRecords
    <2>4. handler' = [handler EXCEPT ![c][i] = h]
        BY <1>2, <2>1 DEF DeployBegins, HandlerTable
    <2> HIDE DEF h
    <2>5. Updated(c, i, h)
        BY <2>2, <2>4, UpdateFacts
    <2>6. Fits("promote", call[c].req.op)
        BY <1>2, <1>a DEF DeployBegins, At, Fits
    <2>7. handler[c][i].pc = "deploy" /\ phase = "serving"
        BY <1>2 DEF DeployBegins, At
    <2>8. UNCHANGED <<conf, phase, todo, strangers, call, token>>
        BY <1>2 DEF DeployBegins, proc
    <2> QED
        BY <1>b, <2>2, <2>3, <2>5, <2>6, <2>7, <2>8 DEF HandlerMoves
<1>3. ASSUME DeployPromotes(c, i) PROVE \E h \in HandlerRecords : HandlerMoves(c, i, h)
    <2>1. Fits("save", call[c].req.op) /\ At(c, i, "promote") /\ Goto(c, i, "save")
        BY <1>3, <1>a DEF DeployPromotes, At, Fits
    <2>2. UNCHANGED <<proc, token, call>>
        BY <1>3 DEF DeployPromotes
    <2> QED
        BY <1>b, <2>1, <2>2, GotoMoves
<1>4. ASSUME GetAvsPerformer(c, i) \/ StoreAvsPerformer(c, i) \/ DeployRefused(c, i)
             \/ DeployFails(c, i) \/ SaveDeployed(c, i) \/ FindPerformerByID(c, i)
             \/ RemovePerformer(c, i) \/ DeleteRemoved(c, i) \/ ListPerformers(c, i)
             \/ CheckTask(c, i) \/ RunTask(c, i) \/ SignResult(c, i)
             \/ MarkTask(c, i) \/ ReturnResult(c, i)
      PROVE  \E h \in HandlerRecords : HandlerMoves(c, i, h)
    <2>1. UNCHANGED <<proc, token, call>>
        BY <1>4 DEF GetAvsPerformer, StoreAvsPerformer, DeployRefused, DeployFails, SaveDeployed,
                    FindPerformerByID, RemovePerformer, DeleteRemoved, ListPerformers, CheckTask,
                    RunTask, SignResult, MarkTask, ReturnResult
    <2>2. \E pc \in {"deploy", "store", "internal", "refused", "ok", "remove", "delete", "run",
                     "exec", "mark", "return"} :
             Goto(c, i, pc) /\ Fits(pc, call[c].req.op)
        BY <1>4, <1>a
        DEF GetAvsPerformer, StoreAvsPerformer, DeployRefused, DeployFails, SaveDeployed,
            FindPerformerByID, RemovePerformer, DeleteRemoved, ListPerformers, CheckTask,
            RunTask, SignResult, MarkTask, ReturnResult, At, Fits
    <2>3. At(c, i, handler[c][i].pc) /\ handler[c][i].pc \in HandlerPcs \ Ended
        BY <1>4, <1>b
        DEF GetAvsPerformer, StoreAvsPerformer, DeployRefused, DeployFails, SaveDeployed,
            FindPerformerByID, RemovePerformer, DeleteRemoved, ListPerformers, CheckTask,
            RunTask, SignResult, MarkTask, ReturnResult, At
    <2> QED
        BY <2>1, <2>2, <2>3, GotoMoves
<1> QED
    BY <1>1, <1>2, <1>3, <1>4 DEF Management, SubmitTask

-----------------------------------------------------------------------------
(* Handlers fit their calls *)

LEMMA ClientFit == ASSUME TypeOK, HandlersFit, NEW c \in Calls, ClientMoves(c) PROVE HandlersFit'
<1>a. /\ call[c].attempt \in Nat /\ call'[c].attempt \in Nat
      /\ call'[c].req \in Requests
    BY CallFacts, ExecutorConstants DEF ClientMoves, CallRecords
<1>b. \A j \in Attempts : j \in Nat /\ j > 0
    BY ExecutorConstants DEF Attempts
<1>c. phase' = phase
    BY DEF ClientMoves, proc
<1>d. /\ Arrived("auth").pc = "auth" /\ Arrived("check").pc = "check"
    BY DEF Arrived, NoHandler
<1>1. \A d \in Calls : call'[d].pc \in {"idle", "token"} => call'[d].attempt = 0 /\ token'[d] = "none"
    BY DEF ClientMoves, HandlersFit
<1>2. \A d \in Calls : /\ call'[d].pc = "token" => call'[d].req.op # "submit"
                       /\ call'[d].pc = "waiting" => call'[d].attempt # 0
    BY DEF ClientMoves, HandlersFit
<1>3. ASSUME NEW d \in Calls, NEW j \in Attempts
      PROVE  /\ j > call'[d].attempt => handler'[d][j] = NoHandler
             /\ Fits(handler'[d][j].pc, call'[d].req.op)
             /\ handler'[d][j].pc \in {"promote", "save"} => handler'[d][j].on \in Performers
             /\ phase' # "serving" => handler'[d][j].pc \in Ended
    <2>1. CASE d # c
        BY <1>3, <1>c, <2>1 DEF ClientMoves, HandlersFit
    <2>2. CASE d = c
        <3>1. CASE handler'[c][j] = handler[c][j]
            <4>1. CASE call'[c].req = call[c].req
                BY <1>3, <1>a, <1>b, <1>c, <2>2, <3>1, <4>1 DEF ClientMoves, HandlersFit
            <4>2. CASE call[c].attempt = 0
                <5>1. handler'[c][j] = NoHandler
                    BY <1>3, <1>b, <3>1, <4>2 DEF HandlersFit
                <5> QED
                    BY <2>2, <5>1 DEF NoHandler, Fits, Ended
            <4> QED
                BY <4>1, <4>2 DEF ClientMoves
        <3>2. CASE /\ phase = "serving" /\ j > call[c].attempt /\ j <= call'[c].attempt
                   /\ handler'[c][j] = Arrived(First(call'[c].req))
            BY <1>a, <1>b, <1>c, <1>d, <2>2, <3>2, RequestFacts DEF First, Fits
        <3>3. CASE /\ j <= call[c].attempt /\ handler'[c][j].pc = "dead"
            <4>1. j <= call'[c].attempt
                BY <1>a, <1>b, <3>3 DEF ClientMoves
            <4> QED
                BY <1>a, <1>b, <2>2, <3>3, <4>1 DEF Fits, Ended
        <3> QED
            BY <1>3, <3>1, <3>2, <3>3 DEF ClientMoves
    <2> QED
        BY <2>1, <2>2
<1> QED
    BY <1>1, <1>2, <1>3 DEF HandlersFit

LEMMA HandlerFit ==
    ASSUME TypeOK, HandlersFit, NEW c \in Calls, NEW i \in Attempts, NEW h \in HandlerRecords,
           HandlerMoves(c, i, h)
    PROVE  HandlersFit'
<1>1. \A d \in Calls : token[d] = "none" => token'[d] = "none"
    BY DEF HandlerMoves
<1>2. call' = call /\ phase' = "serving"
    BY DEF HandlerMoves
<1>3. ASSUME NEW d \in Calls, NEW j \in Attempts
      PROVE  /\ j > call[d].attempt => handler'[d][j] = NoHandler
             /\ Fits(handler'[d][j].pc, call[d].req.op)
             /\ handler'[d][j].pc \in {"promote", "save"} => handler'[d][j].on \in Performers
    <2>1. CASE d # c \/ j # i
        BY <1>3, <2>1 DEF HandlerMoves, Updated, HandlersFit
    <2>2. CASE d = c /\ j = i
        <3>1. handler'[d][j] = h
            BY <2>2 DEF HandlerMoves, Updated
        <3>2. ~(j > call[d].attempt)
            BY <2>2 DEF HandlerMoves, HandlersFit, NoHandler, Ended
        <3> QED
            BY <2>2, <3>1, <3>2 DEF HandlerMoves
    <2> QED
        BY <2>1, <2>2
<1> QED
    BY <1>1, <1>2, <1>3 DEF HandlersFit

\* The process's own steps.
Process ==
    \/ NewExecutor \/ RehydrationEnds \/ Run \/ Crash \/ Shutdown
    \/ \E p \in Performers : RehydratePerformer(p) \/ DrainRemoves(p)
    \/ \E a \in Avss, p \in Performers : DeployConfigured(a, p)

\* They leave the clients alone, and the tokens and handlers too, or end them all.
LEMMA ProcessFacts ==
    ASSUME Process
    PROVE  /\ UNCHANGED <<conf, processed, call>>
           /\ \/ ProcessEnds
              \/ UNCHANGED <<token, handler>> /\ (phase' = phase \/ phase # "serving")
BY DEF Process, NewExecutor, RehydrationEnds, Run, Crash, Shutdown, ProcessEnds,
       RehydratePerformer, DrainRemoves, DeployConfigured, proc, places, store

LEMMA ProcessFit == ASSUME TypeOK, HandlersFit, Process PROVE HandlersFit'
<1>1. CASE ProcessEnds
    <2>1. \A c \in Calls : token[c] = "none" => token'[c] = "none"
        BY <1>1 DEF ProcessEnds
    <2>2. call' = call /\ phase' = "down"
        BY <1>1 DEF ProcessEnds
    <2>3. ASSUME NEW c \in Calls, NEW i \in Attempts
          PROVE  /\ i > call[c].attempt => handler'[c][i] = NoHandler
                 /\ Fits(handler'[c][i].pc, call[c].req.op)
                 /\ handler'[c][i].pc \in Ended
        <3>1. /\ handler'[c][i].pc = IF handler[c][i].pc \in Ended THEN handler[c][i].pc ELSE "dead"
            BY <1>1, EndFacts
        <3>2. handler'[c][i].pc \in Ended
            BY <3>1 DEF Ended
        <3>3. Fits(handler'[c][i].pc, call[c].req.op)
            BY <3>2 DEF Ended, Replies, Fits
        <3>4. ASSUME i > call[c].attempt PROVE handler'[c][i] = NoHandler
            <4>1. handler[c][i] = NoHandler
                BY <3>4 DEF HandlersFit
            <4>2. handler'[c][i] =
                    [handler[c][i] EXCEPT !.pc = IF handler[c][i].pc \in Ended
                                                 THEN handler[c][i].pc ELSE "dead", !.on = None]
                BY <1>1 DEF ProcessEnds
            <4>3. NoHandler.pc = "none" /\ "none" \in Ended
                BY DEF NoHandler, Ended
            <4>4. handler'[c][i] = [NoHandler EXCEPT !.pc = "none", !.on = None]
                BY <4>1, <4>2, <4>3
            <4> QED
                BY <4>4 DEF NoHandler
        <3> QED
            BY <3>2, <3>3, <3>4
    <2>4. \A c \in Calls, i \in Attempts : handler'[c][i].pc \notin {"promote", "save"}
        BY <2>3 DEF Ended, Replies
    <2> QED
        BY <2>1, <2>2, <2>3, <2>4 DEF HandlersFit
<1>2. CASE UNCHANGED <<token, handler, call>> /\ (phase' = phase \/ phase # "serving")
    BY <1>2 DEF HandlersFit
<1> QED
    BY <1>1, <1>2, ProcessFacts

\* Every action keeps the handlers in step with their calls.
LEMMA FitStep == ASSUME TypeOK, HandlersFit, Next PROVE HandlersFit'
BY ClientFacts, ClientFit, HandlerFacts, HandlerFit, ProcessFit DEF Next, Process
-----------------------------------------------------------------------------
(* Tokens and answers *)

\* A token that admitted an attempt is used up, and no second attempt was admitted.
TokensFit ==
    conf.auth => /\ \A c \in Calls, i \in Attempts : handler[c][i].authed => token[c] = "void"
                 /\ \A c \in Calls, i, j \in Attempts :
                       handler[c][i].authed /\ handler[c][j].authed => i = j

\* Before the first attempt nothing has been admitted or answered.
LEMMA NotStarted ==
    ASSUME TypeOK, HandlersFit, NEW c \in Calls, call[c].attempt = 0, NEW i \in Attempts
    PROVE  handler[c][i].pc = "none" /\ ~handler[c][i].authed
<1>1. handler[c][i] = NoHandler
    BY ExecutorConstants DEF HandlersFit, Attempts
<1> QED
    BY <1>1 DEF NoHandler

\* What a client's step leaves of what was admitted and what was answered.
LEMMA ClientKeeps ==
    ASSUME TypeOK, HandlersFit, NEW c \in Calls, ClientMoves(c), NEW d \in Calls, NEW j \in Attempts
    PROVE  /\ handler'[d][j].authed => handler[d][j].authed /\ token'[d] = token[d]
           /\ handler[d][j].pc = "ok" => handler'[d][j].pc = "ok" /\ call'[d].req = call[d].req
<1>1. CASE d # c
    BY <1>1 DEF ClientMoves
<1>2. CASE d = c
    <2>1. /\ ~Arrived("auth").authed /\ ~Arrived("check").authed
        BY DEF Arrived, NoHandler
    <2>2. ASSUME j > call[c].attempt PROVE handler[c][j].pc # "ok"
        BY <2>2 DEF HandlersFit, NoHandler
    <2>3. handler'[d][j].authed => handler[d][j].authed
        BY <1>2, <2>1 DEF ClientMoves, First
    <2>4. handler[d][j].authed => token'[d] = token[d]
        BY <1>2, NotStarted DEF ClientMoves
    <2>5. handler[d][j].pc = "ok" => handler'[d][j].pc = "ok"
        BY <1>2, <2>2 DEF ClientMoves
    <2>6. handler[d][j].pc = "ok" => call'[d].req = call[d].req
        BY <1>2, NotStarted DEF ClientMoves
    <2> QED
        BY <2>3, <2>4, <2>5, <2>6
<1> QED
    BY <1>1, <1>2

\* Every action keeps the tokens and what they admitted in step.
LEMMA TokensStep == ASSUME TypeOK, HandlersFit, TokensFit, Next PROVE TokensFit'
<1>1. CASE \E c \in Calls : Client(c)
    <2>1. PICK c \in Calls : ClientMoves(c)
        BY <1>1, ClientFacts
    <2>2. conf' = conf
        BY <2>1 DEF ClientMoves, proc
    <2>3. \A d \in Calls, j \in Attempts :
             handler'[d][j].authed => handler[d][j].authed /\ token'[d] = token[d]
        BY <2>1, ClientKeeps
    <2> QED
        BY <2>2, <2>3 DEF TokensFit
<1>2. CASE \E c \in Calls, i \in Attempts : Management(c, i) \/ SubmitTask(c, i)
    <2>1. PICK c \in Calls, i \in Attempts, h \in HandlerRecords : HandlerMoves(c, i, h)
        BY <1>2, HandlerFacts
    <2>2. conf' = conf /\ handler'[c][i] = h
        BY <2>1 DEF HandlerMoves, Updated
    <2>3. \A d \in Calls, j \in Attempts : d # c \/ j # i => handler'[d][j] = handler[d][j]
        BY <2>1 DEF HandlerMoves, Updated
    <2>4. \A d \in Calls : token[d] = "void" => token'[d] = "void"
        BY <2>1 DEF HandlerMoves
    <2>5. \/ ~conf.auth
          \/ h.authed = handler[c][i].authed
          \/ token[c] = "issued" /\ token'[c] = "void"
        BY <2>1 DEF HandlerMoves
    <2>6. CASE ~conf.auth
        BY <2>2, <2>6 DEF TokensFit
    <2>7. CASE conf.auth /\ h.authed = handler[c][i].authed
        <3>1. \A d \in Calls, j \in Attempts : handler'[d][j].authed = handler[d][j].authed
            BY <2>2, <2>3, <2>7
        <3> QED
            BY <2>2, <2>4, <2>7, <3>1 DEF TokensFit
    <2>8. CASE conf.auth /\ token[c] = "issued" /\ token'[c] = "void"
        <3>1. \A j \in Attempts : ~handler[c][j].authed
            BY <2>8 DEF TokensFit
        <3>2. \A d \in Calls, j \in Attempts :
                 handler'[d][j].authed => (d # c /\ handler[d][j].authed) \/ (d = c /\ j = i)
            BY <2>2, <2>3, <3>1
        <3> QED
            BY <2>2, <2>3, <2>4, <2>8, <3>1, <3>2 DEF TokensFit
    <2> QED
        BY <2>5, <2>6, <2>7, <2>8
<1>3. CASE Process
    <2>1. conf' = conf
        BY <1>3, ProcessFacts
    <2>2. CASE ProcessEnds
        <3>1. \A c \in Calls, i \in Attempts : handler'[c][i].authed = handler[c][i].authed
            BY <2>2, EndFacts
        <3>2. \A c \in Calls : token[c] = "void" => token'[c] = "void"
            BY <2>2 DEF ProcessEnds
        <3> QED
            BY <2>1, <3>1, <3>2 DEF TokensFit
    <2>3. CASE UNCHANGED <<token, handler>>
        BY <2>1, <2>3 DEF TokensFit
    <2> QED
        BY <1>3, <2>2, <2>3, ProcessFacts
<1> QED
    BY <1>1, <1>2, <1>3 DEF Next, Process

-----------------------------------------------------------------------------
(* Slots and containers *)

\* A container in a slot lives and is not on its way out; one in service was promoted, and
\* only promoted ones are saved.
SlotsFit ==
    /\ \A a \in Avss, p \in Performers :
          p = current[a] => /\ docker[p] = "live" /\ p \notin draining
                            /\ p # next[a] /\ p \in promoted
    /\ \A a \in Avss, p \in Performers : p = next[a] => docker[p] = "live" /\ p \notin draining
    /\ \A p \in draining : docker[p] = "live"
    /\ saved \subseteq promoted

\* The process knows of the container: it is in a slot, or it is being drained.
Held(p) == p \in draining \/ (\E a \in Avss : p = current[a] \/ p = next[a])

\* What a handler's progress says of its container.
Holds(req, h) ==
    /\ h.pc = "save" => h.on \in promoted
    /\ h.pc \in {"promote", "save"} =>
          docker[h.on] # "absent" /\ (docker[h.on] = "live" => Held(h.on))
    /\ req.op = "remove" /\ h.pc \in {"delete", "ok"} => docker[req.id] = "removed"

HandlersHold == \A c \in Calls, i \in Attempts : Holds(call[c].req, handler[c][i])

\* A step that forgets no live container, old or new, and revives no removed one.
KeepsHeld ==
    /\ promoted \subseteq promoted'
    /\ \A p \in Performers :
          /\ docker[p] = "removed" => docker'[p] = "removed"
          /\ docker[p] # "absent" => docker'[p] # "absent"
          /\ docker[p] # "absent" /\ docker'[p] = "live" => docker[p] = "live"
          /\ docker[p] # "absent" /\ docker'[p] = "live" /\ Held(p) => Held(p)'
          /\ docker[p] = "absent" /\ docker'[p] = "live" => Held(p)'

\* Such a step leaves what a handler's progress says true.
LEMMA HoldsKept ==
    ASSUME KeepsHeld, NEW req \in Requests, NEW h \in HandlerRecords, Holds(req, h),
           h.pc \in {"promote", "save"} => h.on \in Performers
    PROVE  Holds(req, h)'
<1>1. h.pc = "save" => h.on \in promoted'
    BY DEF KeepsHeld, Holds
<1>2. ASSUME h.pc \in {"promote", "save"}
      PROVE  docker'[h.on] # "absent" /\ (docker'[h.on] = "live" => Held(h.on)')
    <2> HIDE DEF Held
    <2>1. h.on \in Performers /\ docker[h.on] # "absent" /\ (docker[h.on] = "live" => Held(h.on))
        BY <1>2 DEF Holds
    <2>2. \A p \in Performers :
             /\ docker[p] # "absent" => docker'[p] # "absent"
             /\ docker[p] # "absent" /\ docker'[p] = "live" => docker[p] = "live"
             /\ docker[p] # "absent" /\ docker'[p] = "live" /\ Held(p) => Held(p)'
        BY DEF KeepsHeld
    <2> QED
        BY <2>1, <2>2
<1>3. req.op = "remove" /\ h.pc \in {"delete", "ok"} => docker'[req.id] = "removed"
    BY RequestFacts DEF KeepsHeld, Holds
<1> QED
    BY <1>1, <1>2, <1>3 DEF Holds

LEMMA HandlerHolds ==
    ASSUME TypeOK, HandlersFit, HandlersHold, KeepsHeld, NEW c \in Calls, NEW i \in Attempts,
           NEW h \in HandlerRecords, HandlerMoves(c, i, h), Holds(call[c].req, h)'
    PROVE  HandlersHold'
<1> SUFFICES ASSUME NEW d \in Calls, NEW j \in Attempts
             PROVE  Holds(call[d].req, handler[d][j])'
    BY DEF HandlersHold
<1>1. call' = call /\ handler'[c][i] = h
    BY DEF HandlerMoves, Updated
<1>2. CASE d = c /\ j = i
    BY <1>1, <1>2 DEF Holds
<1>3. CASE d # c \/ j # i
    <2>1. handler'[d][j] = handler[d][j]
        BY <1>3 DEF HandlerMoves, Updated
    <2>2. PICK k \in HandlerRecords, r \in Requests : k = handler[d][j] /\ r = call[d].req
        BY AtFacts
    <2>3. Holds(r, k) /\ (k.pc \in {"promote", "save"} => k.on \in Performers)
        BY <2>2 DEF HandlersHold, HandlersFit
    <2>4. Holds(r, k)'
        BY <2>3, HoldsKept
    <2> QED
        BY <1>1, <2>1, <2>2, <2>4 DEF Holds
<1> QED
    BY <1>2, <1>3

LEMMA ClientHolds ==
    ASSUME TypeOK, HandlersFit, HandlersHold, NEW c \in Calls, ClientMoves(c)
    PROVE  HandlersHold'
<1>a. UNCHANGED <<current, next, draining, docker, promoted>>
    BY DEF ClientMoves, places
<1> SUFFICES ASSUME NEW d \in Calls, NEW j \in Attempts
             PROVE  Holds(call[d].req, handler[d][j])'
    BY DEF HandlersHold
<1>1. ASSUME handler'[d][j] = handler[d][j], call'[d].req = call[d].req
      PROVE  Holds(call[d].req, handler[d][j])'
    BY <1>1, <1>a DEF HandlersHold, Holds, Held
<1>2. ASSUME handler'[d][j].pc \in {"none", "auth", "check", "dead"}
      PROVE  Holds(call[d].req, handler[d][j])'
    BY <1>2 DEF Holds
<1>3. CASE d # c
    BY <1>1, <1>3 DEF ClientMoves
<1>4. CASE d = c
    <2>1. Arrived("auth").pc = "auth" /\ Arrived("check").pc = "check"
        BY DEF Arrived, NoHandler
    <2>2. handler'[d][j] = handler[d][j] \/ handler'[d][j].pc \in {"none", "auth", "check", "dead"}
        BY <1>4, <2>1 DEF ClientMoves, First
    <2>3. CASE call[c].attempt = 0
        BY <1>2, <1>4, <2>2, <2>3, NotStarted
    <2>4. CASE call[c].attempt # 0
        BY <1>1, <1>2, <1>4, <2>2, <2>4 DEF ClientMoves
    <2> QED
        BY <2>3, <2>4
<1> QED
    BY <1>3, <1>4

\* Slots, containers and what handlers hold, together.
PlacesFit == PhasesFit /\ OwnersFit /\ SlotsFit /\ HandlersHold

LEMMA ClientPlaces ==
    ASSUME TypeOK, HandlersFit, PlacesFit, NEW c \in Calls, ClientMoves(c)
    PROVE  PlacesFit' /\ KeepsHeld
<1>1. HandlersHold'
    BY ClientHolds DEF PlacesFit
<1>2. UNCHANGED <<phase, todo, current, next, draining, docker, owner, promoted, saved>>
    BY DEF ClientMoves, proc, places, store
<1>3. KeepsHeld
    BY <1>2 DEF KeepsHeld, Held
<1> QED
    BY <1>1, <1>2, <1>3 DEF PlacesFit, PhasesFit, OwnersFit, SlotsFit

\* A handler that touches no slot and no container.
LEMMA IdlePlaces ==
    ASSUME TypeOK, HandlersFit, PlacesFit, NEW c \in Calls, NEW i \in Attempts,
           NEW h \in HandlerRecords, HandlerMoves(c, i, h),
           UNCHANGED <<current, next, draining, docker, owner, promoted>>,
           saved' \subseteq promoted, Holds(call[c].req, h)
    PROVE  PlacesFit' /\ KeepsHeld
<1>1. KeepsHeld
    BY DEF KeepsHeld, Held
<1>2. Holds(call[c].req, h)'
    BY DEF Holds, Held, HandlerMoves
<1>3. HandlersHold'
    BY <1>1, <1>2, HandlerHolds DEF PlacesFit
<1>4. PhasesFit'
    BY DEF PlacesFit, PhasesFit, HandlerMoves
<1> QED
    BY <1>1, <1>3, <1>4 DEF PlacesFit, OwnersFit, SlotsFit

\* Where the handler that moves has got to.
LEMMA GotoAt ==
    ASSUME TypeOK, NEW c \in Calls, NEW i \in Attempts, NEW h \in HandlerRecords,
           HandlerMoves(c, i, h), NEW pc \in HandlerPcs, Goto(c, i, pc)
    PROVE  /\ h.pc = pc \/ (pc \in {"refused", "internal"} /\ h.pc = "dead")
           /\ pc \notin Ended => h.on = handler[c][i].on
<1>1. PICK k \in HandlerRecords :
         /\ Updated(c, i, k)
         /\ k.pc = pc \/ (pc \in {"refused", "internal"} /\ k.pc = "dead")
         /\ k.on = IF pc \in Ended THEN None ELSE handler[c][i].on
         /\ k.authed = handler[c][i].authed
    BY GotoFacts
<1>2. k = h
    BY <1>1 DEF Updated, HandlerMoves
<1> QED
    BY <1>1, <1>2

\* A live container is known to its AVS only.
LEMMA SlotFacts ==
    ASSUME TypeOK, SlotsFit
    PROVE  /\ \A a, b \in Avss, p \in Performers :
                 p \in {current[a], next[a]} /\ p \in {current[b], next[b]} => a = b
           /\ \A a \in Avss, p \in Performers :
                 p \in {current[a], next[a]} => docker[p] = "live" /\ p \notin draining
BY DEF TypeOK, SlotsFit

\* The performers in the slots.
LEMMA InSlotsFacts ==
    ASSUME NEW p
    PROVE  p \in InSlots <=> p \in Performers /\ \E a \in Avss : p \in {current[a], next[a]}
<1>1. ASSUME NEW a \in Avss, p \in {current[a], next[a]}
      PROVE  p \in UNION {{current[b], next[b]} : b \in Avss}
    <2>1. {current[a], next[a]} \in {{current[b], next[b]} : b \in Avss}
        OBVIOUS
    <2> QED
        BY <1>1, <2>1
<1>2. ASSUME p \in UNION {{current[b], next[b]} : b \in Avss}
      PROVE  \E a \in Avss : p \in {current[a], next[a]}
    <2>1. PICK s \in {{current[b], next[b]} : b \in Avss} : p \in s
        BY <1>2
    <2>2. PICK a \in Avss : s = {current[a], next[a]}
        BY <2>1
    <2> QED
        BY <2>1, <2>2
<1> QED
    BY <1>1, <1>2 DEF InSlots

LEMMA BeginsPlaces ==
    ASSUME TypeOK, HandlersFit, PlacesFit, NEW c \in Calls, NEW i \in Attempts,
           NEW h \in HandlerRecords, HandlerMoves(c, i, h), NEW p \in Performers, DeployBegins(c, i, p)
    PROVE  PlacesFit' /\ KeepsHeld
<1> DEFINE a == call[c].req.avs
<1>1. a \in Avss
    BY AtFacts DEF DeployBegins, At, Fits
<1>2. /\ next[a] = None /\ docker[p] = "absent"
      /\ next' = [next EXCEPT ![a] = p]
      /\ owner' = [owner EXCEPT ![p] = a]
      /\ docker' = [docker EXCEPT ![p] = "live"]
      /\ UNCHANGED <<current, draining, promoted, saved>>
    BY DEF DeployBegins, store
<1> HIDE DEF a
<1>a. /\ next \in [Avss -> Performers \cup {None}] /\ docker \in [Performers -> {"absent", "live", "removed", "orphan"}]
      /\ owner \in [Performers -> Avss \cup {None}] /\ draining \subseteq Performers /\ saved \subseteq Performers
    BY DEF TypeOK
<1>b. None \notin Avss /\ None \notin Performers
    BY ExecutorConstants
<1>c. SlotsFit
    BY DEF PlacesFit
<1>3. h.pc = "promote" /\ h.on = p
    <2>1. handler'[c][i] = h
        BY DEF HandlerMoves, Updated
    <2>2. handler \in [Calls -> [Attempts -> HandlerRecords]] /\ handler[c][i] \in HandlerRecords
        BY DEF TypeOK
    <2>3. handler'[c][i] = [[handler[c][i] EXCEPT !.pc = "promote"] EXCEPT !.on = p]
        BY <2>2 DEF DeployBegins
    <2> QED
        BY <2>1, <2>2, <2>3 DEF HandlerRecords
<1>4. \A q \in Performers : docker[q] # "absent" => docker'[q] = docker[q] /\ (Held(q) => Held(q)')
    BY <1>1, <1>2, <1>a, <1>b DEF Held
<1>6. Held(p)' /\ docker'[p] = "live"
    BY <1>1, <1>2, <1>a DEF Held
<1>k. \A q \in Performers : q # p => docker'[q] = docker[q]
    BY <1>2, <1>a
<1>5. KeepsHeld
    <2> HIDE DEF Held
    <2> QED
        BY <1>2, <1>4, <1>6, <1>k DEF KeepsHeld
<1>7. Holds(call[c].req, h)'
    BY <1>3, <1>6 DEF Holds
<1>8. HandlersHold'
    BY <1>5, <1>7, HandlerHolds DEF PlacesFit
<1>9. PhasesFit'
    BY DEF PlacesFit, PhasesFit, HandlerMoves
<1>10. OwnersFit'
    BY <1>1, <1>2, <1>a, <1>b DEF PlacesFit, OwnersFit
<1>11. \A b \in Avss : p \notin {current[b], next[b]}
    BY <1>2, <1>c DEF SlotsFit
<1>12. p \notin draining
    BY <1>2, <1>c DEF SlotsFit
<1>13. SlotsFit'
    BY <1>1, <1>2, <1>a, <1>c, <1>11, <1>12 DEF SlotsFit
<1> QED
    BY <1>5, <1>8, <1>9, <1>10, <1>13 DEF PlacesFit

LEMMA PromotesPlaces ==
    ASSUME TypeOK, HandlersFit, PlacesFit, NEW c \in Calls, NEW i \in Attempts,
           NEW h \in HandlerRecords, HandlerMoves(c, i, h), DeployPromotes(c, i)
    PROVE  PlacesFit' /\ KeepsHeld
<1> DEFINE a == call[c].req.avs
           p == handler[c][i].on
<1>1. a \in Avss /\ p \in Performers
    BY AtFacts, OnFacts DEF DeployPromotes, At, Fits
<1>2. /\ next[a] = p
      /\ current' = [current EXCEPT ![a] = p]
      /\ next' = [next EXCEPT ![a] = None]
      /\ draining' = draining \cup ({current[a]} \cap Performers)
      /\ promoted' = promoted \cup {p}
      /\ UNCHANGED <<docker, owner, saved>>
    BY DEF DeployPromotes, store
<1>3. h.pc = "save" /\ h.on = p
    <2>1. Goto(c, i, "save")
        BY DEF DeployPromotes
    <2> QED
        BY <2>1, Pcs, GotoAt DEF Ended, Replies
<1> HIDE DEF a, p
<1>a. /\ next \in [Avss -> Performers \cup {None}] /\ current \in [Avss -> Performers \cup {Unset, TypedNil}]
      /\ draining \subseteq Performers /\ saved \subseteq Performers
    BY DEF TypeOK
<1>b. None \notin Performers
    BY ExecutorConstants
<1>c. SlotsFit
    BY DEF PlacesFit
<1>4. ASSUME NEW q \in Performers, Held(q) PROVE Held(q)'
    <2>1. CASE q \in draining
        BY <1>2, <2>1 DEF Held
    <2>2. CASE \E b \in Avss : q = current[b] \/ q = next[b]
        <3>1. PICK b \in Avss : q = current[b] \/ q = next[b]
            BY <2>2
        <3>2. CASE b = a
            BY <1>1, <1>2, <1>a, <3>1, <3>2 DEF Held
        <3>3. CASE b # a
            <4>1. current'[b] = current[b] /\ next'[b] = next[b]
                BY <1>1, <1>2, <1>a, <3>3
            <4> QED
                BY <3>1, <4>1 DEF Held
        <3> QED
            BY <3>2, <3>3
    <2> QED
        BY <1>4, <2>1, <2>2 DEF Held
<1>5. KeepsHeld
    BY <1>2, <1>4 DEF KeepsHeld
<1>6. docker[p] = "live"
    BY <1>1, <1>2, <1>c DEF SlotsFit
<1>7. Held(h.on)'
    BY <1>1, <1>2, <1>3, <1>a DEF Held
<1>8. Holds(call[c].req, h)'
    BY <1>2, <1>3, <1>6, <1>7 DEF Holds
<1>9. HandlersHold'
    BY <1>5, <1>8, HandlerHolds DEF PlacesFit
<1>10. PhasesFit' /\ OwnersFit'
    BY <1>2 DEF PlacesFit, PhasesFit, OwnersFit, HandlerMoves
<1>11. SlotsFit'
    <2>1. ASSUME NEW b \in Avss, NEW q \in Performers, q = current'[b]
          PROVE  docker[q] = "live" /\ q \notin draining' /\ q # next'[b] /\ q \in promoted'
        <3>1. CASE b = a
            <4>1. q = p /\ next'[b] = None
                BY <1>1, <1>2, <1>a, <2>1, <3>1
            <4>2. p \notin draining /\ p # current[a]
                BY <1>1, <1>2, <1>c DEF SlotsFit
            <4> QED
                BY <1>2, <1>6, <1>b, <4>1, <4>2
        <3>2. CASE b # a
            <4>1. q = current[b] /\ next'[b] = next[b]
                BY <1>1, <1>2, <1>a, <2>1, <3>2
            <4>2. q # current[a]
                BY <1>1, <1>c, <3>2, <4>1, SlotFacts
            <4> QED
                BY <1>2, <1>c, <4>1, <4>2 DEF SlotsFit
        <3> QED
            BY <3>1, <3>2
    <2>2. ASSUME NEW b \in Avss, NEW q \in Performers, q = next'[b]
          PROVE  docker[q] = "live" /\ q \notin draining'
        <3>1. b # a
            BY <1>1, <1>2, <1>a, <1>b, <2>2
        <3>2. q = next[b]
            BY <1>1, <1>2, <1>a, <2>2, <3>1
        <3>3. q # current[a]
            BY <1>1, <1>c, <3>1, <3>2, SlotFacts
        <3> QED
            BY <1>2, <1>c, <3>2, <3>3 DEF SlotsFit
    <2>3. \A q \in draining' : docker[q] = "live"
        BY <1>1, <1>2, <1>c DEF SlotsFit
    <2>4. saved \subseteq promoted'
        BY <1>2, <1>c DEF SlotsFit
    <2> QED
        BY <1>2, <2>1, <2>2, <2>3, <2>4 DEF SlotsFit
<1> QED
    BY <1>5, <1>9, <1>10, <1>11 DEF PlacesFit

\* A container leaves its slot, or the drain, and is removed or lost.
LEMMA LeavesFacts ==
    ASSUME TypeOK, PlacesFit, NEW p \in Performers, NEW left \in {"removed", "orphan"},
           docker[p] = "live", docker' = [docker EXCEPT ![p] = left],
           \A a \in Avss : p \notin {current'[a], next'[a]},
           \A a \in Avss, q \in Performers : q # p => /\ q = current[a] <=> q = current'[a]
                                                      /\ q = next[a] <=> q = next'[a],
           draining' = draining \ {p},
           UNCHANGED <<owner, promoted, saved>>
    PROVE  KeepsHeld /\ OwnersFit' /\ SlotsFit'
<1>a. docker \in [Performers -> {"absent", "live", "removed", "orphan"}] /\ draining \subseteq Performers
    BY DEF TypeOK
<1>b. SlotsFit
    BY DEF PlacesFit
<1>1. docker'[p] = left /\ \A q \in Performers : q # p => docker'[q] = docker[q]
    BY <1>a
<1>2. \A q \in Performers : q # p /\ Held(q) => Held(q)'
    BY DEF Held
<1>3. KeepsHeld
    BY <1>1, <1>2 DEF KeepsHeld
<1>4. OwnersFit'
    BY <1>1 DEF PlacesFit, OwnersFit
<1>5. ASSUME NEW b \in Avss, NEW q \in Performers, q = current'[b]
      PROVE  docker'[q] = "live" /\ q \notin draining' /\ q # next'[b] /\ q \in promoted'
    <2>1. q # p
        BY <1>5
    <2>2. q = current[b]
        BY <1>5, <2>1
    <2>3. q # next'[b]
        BY <1>b, <2>1, <2>2 DEF SlotsFit
    <2> QED
        BY <1>1, <1>b, <2>1, <2>2, <2>3 DEF SlotsFit
<1>6. ASSUME NEW b \in Avss, NEW q \in Performers, q = next'[b]
      PROVE  docker'[q] = "live" /\ q \notin draining'
    <2>1. q # p
        BY <1>6
    <2>2. q = next[b]
        BY <1>6, <2>1
    <2> QED
        BY <1>1, <1>b, <2>1, <2>2 DEF SlotsFit
<1>7. \A q \in draining' : docker'[q] = "live"
    BY <1>1, <1>a, <1>b DEF SlotsFit
<1> QED
    BY <1>3, <1>4, <1>5, <1>6, <1>7, <1>b DEF SlotsFit
LEMMA FailsPlaces ==
    ASSUME TypeOK, HandlersFit, PlacesFit, NEW c \in Calls, NEW i \in Attempts,
           NEW h \in HandlerRecords, HandlerMoves(c, i, h), DeployFails(c, i)
    PROVE  PlacesFit' /\ KeepsHeld
<1>1. h.pc \in {"internal", "dead"}
    <2>1. Goto(c, i, "internal")
        BY DEF DeployFails
    <2> QED
        BY <2>1, Pcs, GotoAt
<1>2. Holds(call[c].req, h) /\ Holds(call[c].req, h)'
    BY <1>1 DEF Holds
<1>3. UNCHANGED <<current, owner, draining, promoted, saved>>
    BY DEF DeployFails, store
<1>4. PICK a \in Avss, p \in Performers : a = call[c].req.avs /\ p = handler[c][i].on
    BY AtFacts, OnFacts DEF DeployFails, At, Fits
<1>5. CASE UNCHANGED <<next, docker>>
    BY <1>2, <1>3, <1>5, IdlePlaces DEF PlacesFit, SlotsFit
<1>6. CASE ~UNCHANGED <<next, docker>>
    <2>1. /\ next[a] = p
          /\ next' = [next EXCEPT ![a] = None]
          /\ \E left \in {"removed", "orphan"} : docker' = [docker EXCEPT ![p] = left]
        BY <1>4, <1>6 DEF DeployFails
    <2>2. PICK left \in {"removed", "orphan"} : docker' = [docker EXCEPT ![p] = left]
        BY <2>1
    <2>3. SlotsFit /\ next \in [Avss -> Performers \cup {None}] /\ None \notin Performers
        BY ExecutorConstants DEF PlacesFit, TypeOK
    <2>4. docker[p] = "live" /\ p \notin draining /\ p # current[a]
        BY <2>1, <2>3 DEF SlotsFit
    <2>5. \A b \in Avss : p \notin {current'[b], next'[b]}
        <3> SUFFICES ASSUME NEW b \in Avss PROVE p # current[b] /\ p # next'[b]
            BY <1>3
        <3>1. CASE b = a
            BY <2>1, <2>3, <2>4, <3>1
        <3>2. CASE b # a
            BY <2>1, <2>3, <3>2, SlotFacts
        <3> QED
            BY <3>1, <3>2
    <2>6. \A b \in Avss, q \in Performers : q # p => /\ q = current[b] <=> q = current'[b]
                                                     /\ q = next[b] <=> q = next'[b]
        BY <1>3, <2>1, <2>3
    <2>7. draining' = draining \ {p}
        BY <1>3, <2>4
    <2>8. KeepsHeld /\ OwnersFit' /\ SlotsFit'
        BY <1>3, <2>2, <2>4, <2>5, <2>6, <2>7, LeavesFacts
    <2>9. HandlersHold' /\ PhasesFit'
        BY <1>2, <2>8, HandlerHolds DEF PlacesFit, PhasesFit, HandlerMoves
    <2> QED
        BY <2>8, <2>9 DEF PlacesFit
<1> QED
    BY <1>5, <1>6

LEMMA RemovePlaces ==
    ASSUME TypeOK, HandlersFit, PlacesFit, NEW c \in Calls, NEW i \in Attempts,
           NEW h \in HandlerRecords, HandlerMoves(c, i, h), RemovePerformer(c, i)
    PROVE  PlacesFit' /\ KeepsHeld
<1>1. UNCHANGED <<owner, draining, promoted, saved>>
    BY DEF RemovePerformer, store
<1>2. PICK p \in Performers : p = call[c].req.id
    BY AtFacts DEF RemovePerformer, At, Fits
<1>3. CASE Goto(c, i, "internal") /\ UNCHANGED <<current, next, docker>>
    <2>1. h.pc \in {"internal", "dead"}
        BY <1>3, Pcs, GotoAt
    <2>2. Holds(call[c].req, h)
        BY <2>1 DEF Holds
    <2> QED
        BY <1>1, <1>3, <2>2, IdlePlaces DEF PlacesFit, SlotsFit
<1>4. CASE \E a \in Avss : \E left \in {"removed", "orphan"} :
                /\ p \in {current[a], next[a]}
                /\ current' = [current EXCEPT ![a] = IF @ = p THEN TypedNil ELSE @]
                /\ next' = [next EXCEPT ![a] = IF @ = p THEN None ELSE @]
                /\ docker' = [docker EXCEPT ![p] = left]
                /\ Goto(c, i, IF left = "removed" THEN "delete" ELSE "internal")
    <2>1. PICK a \in Avss, left \in {"removed", "orphan"} :
                /\ p \in {current[a], next[a]}
                /\ current' = [current EXCEPT ![a] = IF @ = p THEN TypedNil ELSE @]
                /\ next' = [next EXCEPT ![a] = IF @ = p THEN None ELSE @]
                /\ docker' = [docker EXCEPT ![p] = left]
                /\ Goto(c, i, IF left = "removed" THEN "delete" ELSE "internal")
        BY <1>4
    <2>2. /\ SlotsFit /\ next \in [Avss -> Performers \cup {None}] /\ None \notin Performers
          /\ current \in [Avss -> Performers \cup {Unset, TypedNil}] /\ TypedNil \notin Performers
          /\ docker \in [Performers -> {"absent", "live", "removed", "orphan"}]
        BY ExecutorConstants DEF PlacesFit, TypeOK
    <2>3. docker[p] = "live" /\ p \notin draining
        BY <2>1, <2>2, SlotFacts
    <2>4. \A b \in Avss : p \notin {current'[b], next'[b]}
        <3> SUFFICES ASSUME NEW b \in Avss PROVE p # current'[b] /\ p # next'[b]
            OBVIOUS
        <3>1. CASE b = a
            BY <2>1, <2>2, <3>1
        <3>2. CASE b # a
            <4>1. p \notin {current[b], next[b]}
                BY <2>1, <2>2, <3>2, SlotFacts
            <4> QED
                BY <2>1, <2>2, <3>2, <4>1
        <3> QED
            BY <3>1, <3>2
    <2>5. \A b \in Avss, q \in Performers : q # p => /\ q = current[b] <=> q = current'[b]
                                                     /\ q = next[b] <=> q = next'[b]
        BY <2>1, <2>2
    <2>6. draining' = draining \ {p}
        BY <1>1, <2>3
    <2>7. KeepsHeld /\ OwnersFit' /\ SlotsFit'
        BY <1>1, <2>1, <2>3, <2>4, <2>5, <2>6, LeavesFacts
    <2>8. Holds(call[c].req, h)'
        <3>1. call' = call
            BY DEF HandlerMoves
        <3>2. CASE left = "removed"
            <4>1. h.pc = "delete" /\ docker'[p] = "removed"
                BY <2>1, <2>2, <3>2, Pcs, GotoAt
            <4> QED
                BY <1>2, <3>1, <4>1 DEF Holds
        <3>3. CASE left # "removed"
            <4>1. h.pc \in {"internal", "dead"}
                BY <2>1, <3>3, Pcs, GotoAt
            <4> QED
                BY <4>1 DEF Holds
        <3> QED
            BY <3>2, <3>3
    <2>9. HandlersHold' /\ PhasesFit'
        <3>1. HandlersHold'
            BY <2>7, <2>8, HandlerHolds DEF PlacesFit
        <3> QED
            BY <3>1 DEF PlacesFit, PhasesFit, HandlerMoves
    <2> QED
        BY <2>7, <2>9 DEF PlacesFit
<1> QED
    BY <1>2, <1>3, <1>4 DEF RemovePerformer

\* Every step of a handler keeps slots and containers in order.
LEMMA HandlerPlaces ==
    ASSUME TypeOK, HandlersFit, PlacesFit, NEW c \in Calls, NEW i \in Attempts,
           NEW h \in HandlerRecords, HandlerMoves(c, i, h),
           Management(c, i) \/ SubmitTask(c, i)
    PROVE  PlacesFit' /\ KeepsHeld
<1> USE Pcs
<1>a. Fits(handler[c][i].pc, call[c].req.op) /\ saved \subseteq promoted
    BY AtFacts DEF PlacesFit, SlotsFit
<1>1. ASSUME VerifyAuth(c, i) PROVE PlacesFit' /\ KeepsHeld
    <2>1. h.pc \in {"get", "find", "list", "refused", "internal", "dead"}
        BY <1>1, VerifyAuthFacts DEF Updated, HandlerMoves
    <2>2. Holds(call[c].req, h)
        BY <2>1 DEF Holds
    <2> QED
        BY <1>1, <1>a, <2>2, IdlePlaces DEF VerifyAuth, places, store
<1>2. ASSUME GetAvsPerformer(c, i) \/ StoreAvsPerformer(c, i) \/ DeployRefused(c, i)
             \/ FindPerformerByID(c, i) \/ ListPerformers(c, i)
             \/ CheckTask(c, i) \/ RunTask(c, i) \/ SignResult(c, i)
             \/ MarkTask(c, i) \/ ReturnResult(c, i)
      PROVE  PlacesFit' /\ KeepsHeld
    <2>1. UNCHANGED <<current, next, draining, docker, owner, promoted, saved>>
        BY <1>2 DEF GetAvsPerformer, StoreAvsPerformer, DeployRefused, FindPerformerByID,
                    ListPerformers, CheckTask, RunTask, SignResult, MarkTask, ReturnResult, places, store
    <2>2. \E pc \in {"deploy", "store", "internal", "refused", "ok", "remove", "run", "exec", "mark",
                     "return"} :
             Goto(c, i, pc) /\ (pc = "ok" => call[c].req.op # "remove")
        BY <1>2, <1>a
        DEF GetAvsPerformer, StoreAvsPerformer, DeployRefused, FindPerformerByID,
            ListPerformers, CheckTask, RunTask, SignResult, MarkTask, ReturnResult, At, Fits
    <2>3. Holds(call[c].req, h)
        BY <2>2, GotoAt DEF Holds
    <2> QED
        BY <1>a, <2>1, <2>3, IdlePlaces
<1>3. ASSUME SaveDeployed(c, i) PROVE PlacesFit' /\ KeepsHeld
    <2>1. handler[c][i].on \in promoted /\ Goto(c, i, "ok") /\ call[c].req.op = "deploy"
        BY <1>3, <1>a DEF SaveDeployed, At, Fits, PlacesFit, HandlersHold, Holds
    <2>2. Holds(call[c].req, h)
        BY <2>1, GotoAt DEF Holds
    <2>3. saved' \subseteq promoted
        BY <1>3, <1>a, <2>1 DEF SaveDeployed, SavePerformerState
    <2> QED
        BY <1>3, <2>2, <2>3, IdlePlaces DEF SaveDeployed, places
<1>4. ASSUME DeleteRemoved(c, i) PROVE PlacesFit' /\ KeepsHeld
    <2>1. docker[call[c].req.id] = "removed" /\ Goto(c, i, "ok") /\ call[c].req.op = "remove"
        BY <1>4, <1>a DEF DeleteRemoved, At, Fits, PlacesFit, HandlersHold, Holds
    <2>2. Holds(call[c].req, h)
        BY <2>1, GotoAt DEF Holds
    <2>3. saved' \subseteq promoted
        BY <1>4, <1>a DEF DeleteRemoved, DeletePerformerState
    <2> QED
        BY <1>4, <2>2, <2>3, IdlePlaces DEF DeleteRemoved, places
<1>5. ASSUME NEW p \in Performers, DeployBegins(c, i, p) PROVE PlacesFit' /\ KeepsHeld
    BY <1>5, BeginsPlaces
<1>6. ASSUME DeployPromotes(c, i) \/ DeployFails(c, i) \/ RemovePerformer(c, i) PROVE PlacesFit' /\ KeepsHeld
    BY <1>6, PromotesPlaces, FailsPlaces, RemovePlaces
<1> QED
    BY <1>1, <1>2, <1>3, <1>4, <1>5, <1>6 DEF Management, SubmitTask
\* While the process does not serve, only the removals that were acknowledged matter.
LEMMA RestHolds ==
    ASSUME TypeOK, HandlersFit, HandlersHold, call' = call,
           \A p \in Performers : docker[p] = "removed" => docker'[p] = "removed",
           \A c \in Calls, i \in Attempts :
              /\ handler'[c][i].pc \in Ended
              /\ handler'[c][i].pc = "ok" => handler[c][i].pc = "ok"
    PROVE  HandlersHold'
<1> SUFFICES ASSUME NEW c \in Calls, NEW i \in Attempts
             PROVE  Holds(call[c].req, handler[c][i])'
    BY DEF HandlersHold
<1>1. handler'[c][i].pc \notin {"promote", "save", "delete"}
    BY DEF Ended, Replies
<1>2. ASSUME call[c].req.op = "remove", handler'[c][i].pc = "ok"
      PROVE  docker'[call[c].req.id] = "removed"
    <2>1. call[c].req.id \in Performers
        BY <1>2, AtFacts
    <2>2. docker[call[c].req.id] = "removed"
        BY <1>2 DEF HandlersHold, Holds
    <2> QED
        BY <2>1, <2>2
<1> QED
    BY <1>1, <1>2 DEF Holds

LEMMA EndsPlaces ==
    ASSUME TypeOK, HandlersFit, PlacesFit, ProcessEnds,
           \A p \in Performers : docker'[p] = docker[p] \/ (docker[p] = "live" /\ docker'[p] = "removed")
    PROVE  PlacesFit'
<1>1. HandlersHold'
    <2>1. \A c \in Calls, i \in Attempts :
              /\ handler'[c][i].pc \in Ended
              /\ handler'[c][i].pc = "ok" => handler[c][i].pc = "ok"
        <3>1. \A c \in Calls, i \in Attempts :
                 handler'[c][i].pc = IF handler[c][i].pc \in Ended THEN handler[c][i].pc ELSE "dead"
            BY EndFacts
        <3>2. "dead" \in Ended
            BY DEF Ended
        <3> QED
            BY <3>1, <3>2
    <2>2. call' = call
        BY DEF ProcessEnds
    <2> QED
        BY <2>1, <2>2, RestHolds DEF PlacesFit
<1>2. PhasesFit'
    BY DEF ProcessEnds, PhasesFit
<1>3. OwnersFit'
    BY DEF ProcessEnds, PlacesFit, OwnersFit
<1>4. SlotsFit'
    <2>1. \A a \in Avss, p \in Performers : p # current'[a] /\ p # next'[a]
        BY ExecutorConstants DEF ProcessEnds
    <2>2. draining' = {} /\ saved' \subseteq promoted'
        BY DEF ProcessEnds, Reopened, PlacesFit, SlotsFit
    <2> QED
        BY <2>1, <2>2 DEF SlotsFit
<1> QED
    BY <1>1, <1>2, <1>3, <1>4 DEF PlacesFit

LEMMA RehydratePlaces ==
    ASSUME TypeOK, HandlersFit, PlacesFit, NEW p \in Performers, RehydratePerformer(p)
    PROVE  PlacesFit'
<1>1. /\ phase = "rehydrating" /\ p \in todo /\ todo' \subseteq todo
      /\ UNCHANGED <<phase, next, owner, draining, promoted, docker, call, handler>>
    BY DEF RehydratePerformer
<1>2. HandlersHold'
    BY <1>1, RestHolds DEF PlacesFit, HandlersFit
<1>3. PhasesFit' /\ OwnersFit'
    BY <1>1 DEF PlacesFit, PhasesFit, OwnersFit
<1>4. SlotsFit'
    <2>1. CASE UNCHANGED current
        BY <1>1, <2>1 DEF RehydratePerformer, DeletePerformerState, PlacesFit, SlotsFit
    <2>2. CASE ~UNCHANGED current
        <3>1. docker[p] = "live" /\ current' = [current EXCEPT ![owner[p]] = p] /\ saved' = saved
            BY <2>2 DEF RehydratePerformer, Adoptable
        <3>2. /\ draining = {} /\ \A a \in Avss : next[a] = None
              /\ None \notin Performers /\ p \in promoted
            BY <1>1, ExecutorConstants DEF PlacesFit, PhasesFit, SlotsFit, TypeOK
        <3>3. \A a \in Avss : current'[a] = current[a] \/ current'[a] = p
            BY <3>1 DEF TypeOK
        <3> QED
            BY <1>1, <3>1, <3>2, <3>3 DEF PlacesFit, SlotsFit
    <2> QED
        BY <2>1, <2>2
<1> QED
    BY <1>2, <1>3, <1>4 DEF PlacesFit

LEMMA DrainPlaces ==
    ASSUME TypeOK, HandlersFit, PlacesFit, NEW p \in Performers, DrainRemoves(p)
    PROVE  PlacesFit' /\ KeepsHeld
<1>1. /\ p \in draining /\ draining' = draining \ {p}
      /\ UNCHANGED <<phase, todo, current, next, owner, promoted, saved, call, handler>>
    BY DEF DrainRemoves, proc, store
<1>2. PICK left \in {"removed", "orphan"} : docker' = [docker EXCEPT ![p] = left]
    BY DEF DrainRemoves
<1>3. docker[p] = "live" /\ \A a \in Avss : p \notin {current[a], next[a]}
    BY <1>1 DEF PlacesFit, SlotsFit
<1>4. KeepsHeld /\ OwnersFit' /\ SlotsFit'
    BY <1>1, <1>2, <1>3, LeavesFacts
<1>5. ASSUME NEW c \in Calls, NEW i \in Attempts PROVE Holds(call[c].req, handler[c][i])'
    <2>1. PICK k \in HandlerRecords, r \in Requests : k = handler[c][i] /\ r = call[c].req
        BY AtFacts
    <2>2. Holds(r, k) /\ (k.pc \in {"promote", "save"} => k.on \in Performers)
        BY <2>1 DEF PlacesFit, HandlersHold, HandlersFit
    <2>3. Holds(r, k)'
        BY <1>4, <2>2, HoldsKept
    <2> QED
        BY <1>1, <2>1, <2>3 DEF Holds
<1>6. PhasesFit'
    BY <1>1 DEF PlacesFit, PhasesFit
<1> QED
    BY <1>4, <1>5, <1>6 DEF PlacesFit, HandlersHold

LEMMA ConfiguredPlaces ==
    ASSUME TypeOK, HandlersFit, PlacesFit, NEW a \in Avss, NEW p \in Performers, DeployConfigured(a, p)
    PROVE  PlacesFit'
<1>1. /\ phase = "configuring" /\ docker[p] = "absent"
      /\ current' = [current EXCEPT ![a] = p]
      /\ owner' = [owner EXCEPT ![p] = a]
      /\ docker' = [docker EXCEPT ![p] = "live"]
      /\ promoted' = promoted \cup {p}
      /\ saved' \subseteq saved \cup {p}
      /\ UNCHANGED <<phase, todo, next, draining, call, handler>>
    BY DEF DeployConfigured, SavePerformerState, proc
<1>2. /\ docker \in [Performers -> {"absent", "live", "removed", "orphan"}]
      /\ current \in [Avss -> Performers \cup {Unset, TypedNil}]
      /\ owner \in [Performers -> Avss \cup {None}] /\ None \notin Avss /\ None \notin Performers
    BY ExecutorConstants DEF TypeOK
<1>3. HandlersHold'
    <2>1. \A q \in Performers : docker[q] = "removed" => docker'[q] = "removed"
        BY <1>1, <1>2
    <2> QED
        BY <1>1, <2>1, RestHolds DEF PlacesFit, HandlersFit
<1>4. PhasesFit'
    BY <1>1 DEF PlacesFit, PhasesFit
<1>5. OwnersFit'
    BY <1>1, <1>2 DEF PlacesFit, OwnersFit
<1>6. draining = {} /\ \A b \in Avss : next[b] = None
    BY <1>1 DEF PlacesFit, PhasesFit
<1>7. SlotsFit'
    <2>1. ASSUME NEW b \in Avss, NEW q \in Performers, q = current'[b]
          PROVE  docker'[q] = "live" /\ q \in promoted'
        <3>1. q = p \/ q = current[b]
            BY <1>1, <1>2, <2>1
        <3> QED
            BY <1>1, <1>2, <3>1 DEF PlacesFit, SlotsFit
    <2>2. saved' \subseteq promoted'
        BY <1>1 DEF PlacesFit, SlotsFit
    <2> QED
        BY <1>1, <1>2, <1>6, <2>1, <2>2 DEF SlotsFit
<1> QED
    BY <1>3, <1>4, <1>5, <1>7 DEF PlacesFit

\* The process's own steps keep slots and containers in order.
LEMMA ProcessPlaces == ASSUME TypeOK, HandlersFit, PlacesFit, Process PROVE PlacesFit'
<1>1. ASSUME NewExecutor \/ RehydrationEnds \/ Run PROVE PlacesFit'
    <2>1. /\ phase # "serving" /\ UNCHANGED <<current, next, draining, docker, owner, promoted, saved,
                                              call, handler>>
        BY <1>1 DEF NewExecutor, RehydrationEnds, Run, places, store
    <2>2. HandlersHold'
        BY <2>1, RestHolds DEF PlacesFit, HandlersFit
    <2>3. OwnersFit' /\ SlotsFit'
        BY <2>1 DEF PlacesFit, OwnersFit, SlotsFit
    <2>4. PhasesFit'
        BY <1>1, <2>1 DEF PlacesFit, PhasesFit, NewExecutor, RehydrationEnds, Run
    <2> QED
        BY <2>2, <2>3, <2>4 DEF PlacesFit
<1>2. ASSUME Crash PROVE PlacesFit'
    BY <1>2, EndsPlaces DEF Crash
<1>3. ASSUME Shutdown PROVE PlacesFit'
    <2>1. PICK gone \in SUBSET InSlots :
             docker' = [p \in Performers |-> IF p \in gone THEN "removed" ELSE docker[p]]
        BY <1>3 DEF Shutdown
    <2>2. \A p \in InSlots : docker[p] = "live"
        BY SlotFacts, InSlotsFacts DEF PlacesFit
    <2>3. \A p \in Performers : docker'[p] = docker[p] \/ (docker[p] = "live" /\ docker'[p] = "removed")
        BY <2>1, <2>2
    <2> QED
        BY <1>3, <2>3, EndsPlaces DEF Shutdown
<1> QED
    BY <1>1, <1>2, <1>3, RehydratePlaces, DrainPlaces, ConfiguredPlaces DEF Process

LEMMA PlacesStep == ASSUME TypeOK, HandlersFit, PlacesFit, Next PROVE PlacesFit'
<1>1. CASE \E c \in Calls : Client(c)
    BY <1>1, ClientFacts, ClientPlaces
<1>2. CASE \E c \in Calls, i \in Attempts : Management(c, i) \/ SubmitTask(c, i)
    <2>1. PICK c \in Calls, i \in Attempts : Management(c, i) \/ SubmitTask(c, i)
        BY <1>2
    <2>2. PICK h \in HandlerRecords : HandlerMoves(c, i, h)
        BY <2>1, HandlerFacts
    <2> QED
        BY <2>1, <2>2, HandlerPlaces
<1>3. CASE Process
    BY <1>3, ProcessPlaces
<1> QED
    BY <1>1, <1>2, <1>3 DEF Next, Process

\* Every live container is known to the process or older than it; before the process serves,
\* an AVS without a performer has nothing in service.
LiveHeld ==
    /\ \A p \in Performers \ strangers : docker[p] = "live" => Held(p)
    /\ phase # "serving" => \A a \in Avss \ known : current[a] \notin Performers

\* A step that forgets nothing, in a process that serves.
LEMMA LiveKept ==
    ASSUME LiveHeld, KeepsHeld, strangers' = strangers, phase' = "serving"
    PROVE  LiveHeld'
<1> SUFFICES ASSUME NEW p \in Performers, p \notin strangers, docker'[p] = "live" PROVE Held(p)'
    BY DEF LiveHeld
<1> HIDE DEF Held
<1> QED
    BY DEF LiveHeld, KeepsHeld

\* A performer is put into the empty slot of its AVS, before the process serves.
LEMMA LiveAdopted ==
    ASSUME TypeOK, LiveHeld, phase # "serving", NEW a \in Avss, NEW p \in Performers, a \notin known,
           current' = [current EXCEPT ![a] = p], known' = known \cup {a},
           UNCHANGED <<next, draining>>,
           \A q \in Performers : q # p => docker'[q] = docker[q] /\ (q \in strangers' <=> q \in strangers)
    PROVE  LiveHeld'
<1>a. current \in [Avss -> Performers \cup {Unset, TypedNil}] /\ current[a] \notin Performers
    BY DEF TypeOK, LiveHeld
<1>1. Held(p)'
    BY <1>a DEF Held
<1>2. ASSUME NEW q \in Performers, q # p, Held(q) PROVE Held(q)'
    <2>1. CASE q \in draining
        BY <2>1 DEF Held
    <2>2. CASE \E b \in Avss : q = current[b] \/ q = next[b]
        <3>1. PICK b \in Avss : q = current[b] \/ q = next[b]
            BY <2>2
        <3>2. q = current'[b] \/ q = next'[b]
            BY <1>a, <3>1
        <3> QED
            BY <3>2 DEF Held
    <2> QED
        BY <1>2, <2>1, <2>2 DEF Held
<1>3. \A b \in Avss \ known' : current'[b] \notin Performers
    BY <1>a DEF LiveHeld
<1> HIDE DEF Held
<1> QED
    BY <1>1, <1>2, <1>3 DEF LiveHeld

\* Every action keeps its live containers known.
LEMMA LiveStep == ASSUME TypeOK, HandlersFit, PlacesFit, LiveHeld, Next PROVE LiveHeld'
<1>1. CASE \E c \in Calls : Client(c)
    <2>1. PICK c \in Calls : ClientMoves(c)
        BY <1>1, ClientFacts
    <2>2. UNCHANGED <<phase, strangers, known, current, next, draining, docker>>
        BY <2>1 DEF ClientMoves, proc, places
    <2> QED
        BY <2>2 DEF LiveHeld, Held
<1>2. CASE \E c \in Calls, i \in Attempts : Management(c, i) \/ SubmitTask(c, i)
    <2>1. PICK c \in Calls, i \in Attempts : Management(c, i) \/ SubmitTask(c, i)
        BY <1>2
    <2>2. PICK h \in HandlerRecords : HandlerMoves(c, i, h)
        BY <2>1, HandlerFacts
    <2>3. KeepsHeld
        BY <2>1, <2>2, HandlerPlaces
    <2> QED
        BY <2>2, <2>3, LiveKept DEF HandlerMoves
<1>3. CASE \E p \in Performers : DrainRemoves(p)
    <2>1. KeepsHeld /\ strangers' = strangers /\ phase' = "serving"
        BY <1>3, DrainPlaces DEF DrainRemoves, proc
    <2> QED
        BY <2>1, LiveKept
<1>4. CASE NewExecutor \/ RehydrationEnds \/ Run
    <2>1. phase # "serving" /\ UNCHANGED <<strangers, known, current, next, draining, docker>>
        BY <1>4 DEF NewExecutor, RehydrationEnds, Run, places
    <2> QED
        BY <2>1 DEF LiveHeld, Held
<1>5. CASE ProcessEnds /\ \A p \in Performers : docker'[p] = "live" => docker[p] = "live"
    <2>1. \A p \in Performers \ strangers' : docker'[p] # "live"
        BY <1>5 DEF ProcessEnds
    <2>2. \A a \in Avss : current'[a] \notin Performers
        BY <1>5, ExecutorConstants DEF ProcessEnds
    <2> QED
        BY <2>1, <2>2 DEF LiveHeld
<1>6. CASE Crash \/ Shutdown
    <2>1. ProcessEnds
        BY <1>6 DEF Crash, Shutdown
    <2>2. \A p \in Performers : docker'[p] = "live" => docker[p] = "live"
        BY <1>6 DEF Crash, Shutdown
    <2> QED
        BY <1>5, <2>1, <2>2
<1>7. CASE \E p \in Performers : RehydratePerformer(p)
    <2>1. PICK p \in Performers : RehydratePerformer(p)
        BY <1>7
    <2>2. phase # "serving" /\ UNCHANGED <<phase, next, draining, docker>>
        BY <2>1 DEF RehydratePerformer
    <2>3. CASE UNCHANGED <<known, current, strangers>>
        BY <2>2, <2>3 DEF LiveHeld, Held
    <2>4. CASE ~UNCHANGED <<known, current, strangers>>
        <3>1. /\ docker[p] = "live" /\ owner[p] \notin known /\ known' = known \cup {owner[p]}
              /\ current' = [current EXCEPT ![owner[p]] = p] /\ strangers' = strangers \ {p}
            BY <2>1, <2>4 DEF RehydratePerformer, Adoptable
        <3>2. owner[p] \in Avss
            BY <3>1 DEF TypeOK, PlacesFit, OwnersFit
        <3> QED
            BY <2>2, <3>1, <3>2, LiveAdopted
    <2> QED
        BY <2>3, <2>4
<1>8. CASE \E a \in Avss, p \in Performers : DeployConfigured(a, p)
    <2>1. PICK a \in Avss, p \in Performers : DeployConfigured(a, p)
        BY <1>8
    <2>2. /\ phase # "serving" /\ a \notin known /\ known' = known \cup {a}
          /\ current' = [current EXCEPT ![a] = p] /\ docker' = [docker EXCEPT ![p] = "live"]
          /\ UNCHANGED <<next, draining, strangers>>
        BY <2>1 DEF DeployConfigured, proc
    <2>3. \A q \in Performers : q # p => docker'[q] = docker[q]
        BY <2>2 DEF TypeOK
    <2> QED
        BY <2>2, <2>3, LiveAdopted
<1> QED
    BY <1>1, <1>2, <1>3, <1>4, <1>6, <1>7, <1>8 DEF Next

-----------------------------------------------------------------------------
(* The theorems *)

\* Types, handlers, slots, tokens and live containers, together.
IInv == TypeOK /\ HandlersFit /\ PlacesFit /\ TokensFit /\ LiveHeld

LEMMA InitIInv == Init => IInv
<1> SUFFICES ASSUME Init PROVE IInv
    OBVIOUS
<1>1. IdleCall \in CallRecords
    <2>1. IdleCall.req \in Requests
        BY DEF IdleCall, Requests
    <2>2. 0 \in 0 .. MaxAttempts
        BY ExecutorConstants
    <2> QED
        BY <2>1, <2>2 DEF IdleCall, CallRecords
<1>2. NoHandler \in HandlerRecords
    BY Pcs DEF NoHandler, HandlerRecords
<1>3. /\ IdleCall.attempt = 0 /\ IdleCall.pc = "idle" /\ NoHandler.pc = "none" /\ ~NoHandler.authed
    BY DEF IdleCall, NoHandler
<1>4. \A c \in Calls : call[c] = IdleCall
    BY DEF Init
<1>5. \A c \in Calls, i \in Attempts : handler[c][i] = NoHandler
    BY DEF Init
<1>6. TypeOK
    <2>1. \A a \in Avss, p \in Performers : p \notin {current[a], next[a]}
        BY ExecutorConstants DEF Init
    <2>2. 0 \in 0 .. MaxStops
        BY ExecutorConstants
    <2>3. call \in [Calls -> CallRecords] /\ handler \in [Calls -> [Attempts -> HandlerRecords]]
        BY <1>1, <1>2 DEF Init
    <2> QED
        BY <2>1, <2>2, <2>3 DEF Init, TypeOK
<1>7. HandlersFit
    <2>1. \A c \in Calls, i \in Attempts : /\ Fits(handler[c][i].pc, call[c].req.op)
                                           /\ handler[c][i].pc \in Ended
                                           /\ handler[c][i].pc \notin {"promote", "save"}
        BY <1>3, <1>5 DEF Fits, Ended
    <2>2. \A c \in Calls : token[c] = "none"
        BY DEF Init
    <2> QED
        BY <1>3, <1>4, <1>5, <2>1, <2>2 DEF HandlersFit
<1>8. PlacesFit
    <2>1. \A a \in Avss, p \in Performers : p # current[a] /\ p # next[a]
        BY ExecutorConstants DEF Init
    <2>2. HandlersHold
        BY <1>3, <1>5 DEF HandlersHold, Holds
    <2>3. SlotsFit
        BY <2>1 DEF SlotsFit, Init
    <2> QED
        BY <2>2, <2>3 DEF PlacesFit, PhasesFit, OwnersFit, Init
<1>9. TokensFit
    BY <1>3, <1>5 DEF TokensFit
<1>10. LiveHeld
    BY ExecutorConstants DEF LiveHeld, Init
<1> QED
    BY <1>6, <1>7, <1>8, <1>9, <1>10 DEF IInv

LEMMA NextIInv == IInv /\ [Next]_vars => IInv'
<1> SUFFICES ASSUME IInv, [Next]_vars PROVE IInv'
    OBVIOUS
<1>1. CASE Next
    <2>1. TypeOK'
        BY <1>1, TypeStep DEF IInv, PlacesFit
    <2> QED
        BY <1>1, <2>1, FitStep, PlacesStep, TokensStep, LiveStep DEF IInv
<1>2. CASE UNCHANGED vars
    <2> USE <1>2 DEF vars, proc, places, store
    <2>1. TypeOK' /\ HandlersFit'
        BY DEF IInv, TypeOK, HandlersFit
    <2>2. PhasesFit' /\ OwnersFit' /\ SlotsFit'
        BY DEF IInv, PlacesFit, PhasesFit, OwnersFit, SlotsFit
    <2>3. HandlersHold'
        BY DEF IInv, PlacesFit, HandlersHold, Holds, Held
    <2>4. TokensFit' /\ LiveHeld'
        BY DEF IInv, TokensFit, LiveHeld, Held
    <2> QED
        BY <2>1, <2>2, <2>3, <2>4 DEF IInv, PlacesFit
<1> QED
    BY <1>1, <1>2

\* The inductive invariant holds in every state of every behaviour.
THEOREM IInvInvariant == Spec => []IInv
BY InitIInv, NextIInv, PTL DEF Spec

\* A challenge token admits one attempt of a call (verifyAuth), for any number of attempts,
\* clients, crashes and restarts.
THEOREM RetryAuthorisedOnceTheorem == Spec => []RetryAuthorisedOnce
<1>1. ASSUME IInv PROVE RetryAuthorisedOnce
    <2> SUFFICES ASSUME conf.auth, NEW c \in Calls
                 PROVE  Cardinality({i \in Attempts : handler[c][i].authed}) <= 1
        BY DEF RetryAuthorisedOnce
    <2> DEFINE S == {i \in Attempts : handler[c][i].authed}
    <2>1. \A i, j \in S : i = j
        BY <1>1 DEF IInv, TokensFit
    <2>2. CASE S = {}
        BY <2>2, FS_EmptySet
    <2>3. CASE S # {}
        <3>1. PICK i : S = {i}
            BY <2>1, <2>3
        <3>2. Cardinality(S) = 1
            BY <3>1, FS_Singleton
        <3> QED
            BY <3>2
    <2> QED
        BY <2>2, <2>3
<1> QED
    BY <1>1, IInvInvariant, PTL

\* A performer whose removal was acknowledged is in no slot again (RemovePerformer), whatever
\* is saved after it and however often the executor restarts.
THEOREM RemovedStaysRemovedTheorem == Spec => []RemovedStaysRemoved
<1>1. ASSUME IInv PROVE RemovedStaysRemoved
    <2> SUFFICES ASSUME NEW c \in Calls, NEW i \in Attempts,
                        call[c].req.op = "remove", handler[c][i].pc = "ok"
                 PROVE  call[c].req.id \notin InSlots
        BY DEF RemovedStaysRemoved
    <2>1. docker[call[c].req.id] = "removed"
        BY <1>1 DEF IInv, PlacesFit, HandlersHold, Holds
    <2>2. \A p \in InSlots : docker[p] = "live"
        BY <1>1, SlotFacts, InSlotsFacts DEF IInv, PlacesFit
    <2> QED
        BY <2>1, <2>2
<1> QED
    BY <1>1, IInvInvariant, PTL

\* Types hold, and only containers that Deploy found healthy are in service, even after a
\* crash in the middle of a deployment (RehydratePerformer).
THEOREM ServingWasPromotedTheorem == Spec => []ServingWasPromoted
<1>1. IInv => ServingWasPromoted
    BY DEF IInv, PlacesFit, SlotsFit, ServingWasPromoted
<1> QED
    BY <1>1, IInvInvariant, PTL

\* Every live container is in a slot or drained, unless an earlier process left it there
\* (DeployArtifact, RemovePerformer, rehydratePerformers, Initialize), however many
\* deployments and removals of an AVS run at once and whatever of them fails.
THEOREM NoContainerForgottenTheorem == Spec => []NoContainerForgotten
<1>1. ASSUME IInv PROVE NoContainerForgotten
    <2> SUFFICES ASSUME NEW p \in Performers, p \notin strangers, docker[p] = "live"
                 PROVE  p \in InSlots \cup draining
        BY DEF NoContainerForgotten
    <2>1. Held(p)
        BY <1>1 DEF IInv, LiveHeld
    <2> QED
        BY <2>1, InSlotsFacts DEF Held
<1> QED
    BY <1>1, IInvInvariant, PTL
=============================================================================
