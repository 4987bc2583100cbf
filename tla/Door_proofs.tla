------------------------------ MODULE Door_proofs ------------------------------
(***************************************************************************)
(* Proofs about Door, for every set of calls, paths, roots and requests,   *)
(* every cap and every number of crashes.                                  *)
(*                                                                         *)
(* The registry is touched only through its actions, under keys that are   *)
(* canonical paths, so the proof of LockRegistry carries over (RegP).  The *)
(* rest of the invariant follows one call: a guard belongs to the          *)
(* directory that was asked for, and an answer tells whether there was     *)
(* one.                                                                    *)
(***************************************************************************)
EXTENDS Door, FiniteSetTheorems, TLAPS

RegP == INSTANCE LockRegistry_proofs WITH Dirs <- Paths, Runs <- Calls

\* A call is made once, and what it posts is one of its requests.
CallIsPosted(c) ==
    /\ result[c] = "idle" <=> handler[c] = "none"
    /\ handler[c] # "none" => request[c] \in Requests[c]

\* A run is admitted by the handler of its call, in the directory asked for.
GuardIsAskedFor(c) ==
    /\ handler[c] \in {"none", "posted"} => guard[c] = "unused"
    /\ handler[c] = "admitted" => guard[c] # "unused"
    /\ guard[c] # "unused" => lockDir[c] = Canon[request[c].path]

\* The response tells whether there is a run.
ReplyIsTrue(c) ==
    handler[c] = "answered" =>
        \/ reply[c] = <<"200", c>> /\ guard[c] # "unused"
        \/ reply[c][1] \in Refusals /\ guard[c] = "unused"

\* So does what the tool returns.
ResultIsTrue(c) ==
    /\ result[c] \in Refusals => guard[c] = "unused" /\ handler[c] \in {"answered", "gone"}
    /\ result[c] \in Calls => result[c] = c /\ guard[c] # "unused"
    /\ result[c] = "unreadable" => guard[c] # "unused"

CallInv(c) == CallIsPosted(c) /\ GuardIsAskedFor(c) /\ ReplyIsTrue(c) /\ ResultIsTrue(c)

DoorTypeOK ==
    /\ up \in BOOLEAN /\ crashes \in 0..MaxCrashes
    /\ request \in [Calls -> (UNION {Requests[c] : c \in Calls}) \cup {NoRequest}]
    /\ handler \in [Calls -> HandlerStages]
    /\ reply \in [Calls -> ({"none", "200"} \cup Refusals) \X (Calls \cup {NoRun})]
    /\ result \in [Calls -> Calls \cup Refusals \cup ToolStates]

DoorInv == RegP!RegistryInv /\ DoorTypeOK /\ \A c \in Calls : CallInv(c)

-------------------------------------------------------------------------------
\* The registry, as the proofs of LockRegistry know it.

\* What the proofs of the registry assume holds of paths and calls.
LEMMA RegistryAssumptions ==
    /\ RegP!IsFiniteSet(Calls) /\ NoRun \notin Calls
    /\ RegP!IsFiniteSet(Paths) /\ NoDir \notin Paths
    /\ MaxConcurrentRuns \in Nat
<1>1. \A S : RegP!IsFiniteSet(S) <=> IsFiniteSet(S)
  BY DEF RegP!IsFiniteSet, IsFiniteSet
<1> QED
  BY <1>1, RegistryAssumption

\* Its actions and verdicts are those the proofs are about.
LEMMA SameActions ==
    /\ Reg!Init => RegP!Init
    /\ \A d, c : Reg!Admit(d, c) => RegP!Admit(d, c)
    /\ \A c : Reg!DropEntry(c) => RegP!DropEntry(c)
    /\ \A c : Reg!DropPermit(c) => RegP!DropPermit(c)
    /\ Reg!Restart => RegP!Restart
<1>1. Reg!Init => RegP!Init
  BY DEF Reg!Init, RegP!Init, Reg!FreeMap, RegP!FreeMap, Reg!Permits, RegP!Permits
<1>2. \A d, c : Reg!Admit(d, c) => RegP!Admit(d, c)
  BY DEF Reg!Admit, RegP!Admit, Reg!Verdict, RegP!Verdict
<1>3. \A c : Reg!DropEntry(c) => RegP!DropEntry(c)
  BY DEF Reg!DropEntry, RegP!DropEntry
<1>4. \A c : Reg!DropPermit(c) => RegP!DropPermit(c)
  BY DEF Reg!DropPermit, RegP!DropPermit
<1>5. Reg!Restart => RegP!Restart
  BY DEF Reg!Restart, RegP!Restart, Reg!FreeMap, RegP!FreeMap,
         Reg!Permits, RegP!Permits, Reg!Outstanding, RegP!Outstanding
<1> QED
  BY <1>1, <1>2, <1>3, <1>4, <1>5

\* A request that passes the checks names a directory by its canonical path.
LEMMA AcceptedKey ==
    ASSUME NEW q, Refusal(q) = "none"
    PROVE  Key(q) \in Paths
BY PathAssumption DEF Refusal, RefusalBy, Key

\* Every other request is refused with a code of its own.
LEMMA RefusalCodes ==
    ASSUME NEW q
    PROVE  Refusal(q) \in Refusals \cup {"none"}
BY DEF Refusal, RefusalBy, Refusals

\* What the handler does, told by its three outcomes.
LEMMA HandleCases ==
    ASSUME RegP!RegistryInv, NEW c \in Calls, Handle(c)
    PROVE  /\ handler[c] = "posted" /\ UNCHANGED <<service, request, result>>
           /\ \/ /\ UNCHANGED registry
                 /\ handler' = [handler EXCEPT ![c] = "answered"]
                 /\ \E code \in Refusals, r \in Calls \cup {NoRun} :
                       reply' = [reply EXCEPT ![c] = <<code, r>>]
              \/ /\ Key(request[c]) \in Paths
                 /\ RegP!Admit(Key(request[c]), c)
                 /\ handler' = [handler EXCEPT ![c] = "admitted"]
                 /\ UNCHANGED reply
<1> DEFINE q == request[c]
<1>1. CASE Refusal(q) # "none"
  BY <1>1, RefusalCodes DEF Handle
<1>2. CASE Refusal(q) = "none"
  <2>1. Key(q) \in Paths
    BY <1>2, AcceptedKey
  <2>2. inflight[Key(q)] \in Calls \cup {NoRun}
    BY <2>1 DEF RegP!RegistryInv, RegP!TypeOK
  <2>3. "409" \in Refusals /\ "429" \in Refusals
    BY DEF Refusals
  <2> QED
    BY <1>2, <2>1, <2>2, <2>3, SameActions DEF Handle
<1> QED
  BY <1>1, <1>2

-------------------------------------------------------------------------------
\* Steps that concern one call.

CallStep(c) ==
    \/ \E q \in Requests[c] : Call(c, q)
    \/ Deliver(c) \/ DeliverBroken(c) \/ GiveUp(c) \/ Handle(c) \/ Answer(c) \/ Forget(c)
    \/ RunEnds(c) \/ DropPermit(c)

SameCall(d) ==
    /\ request'[d] = request[d] /\ handler'[d] = handler[d] /\ reply'[d] = reply[d]
    /\ result'[d] = result[d] /\ guard'[d] = guard[d] /\ lockDir'[d] = lockDir[d]

\* A step is that of one call, or of the service.
LEMMA StepKinds ==
    [Next]_vars => (\E c \in Calls : CallStep(c)) \/ Crash \/ Restart \/ UNCHANGED vars
BY DEF Next, CallStep, Idle

\* A step of the service is a step of the registry or leaves it alone.
LEMMA RegistryOnlyThroughActions ==
    ASSUME RegP!RegistryInv, [Next]_vars
    PROVE  RegP!Next \/ UNCHANGED registry
<1>1. ASSUME NEW c \in Calls, CallStep(c) PROVE RegP!Next \/ UNCHANGED registry
  <2>1. CASE Handle(c)
    BY <2>1, HandleCases DEF RegP!Next
  <2>2. CASE RunEnds(c)
    BY <2>2, SameActions DEF RunEnds, RegP!Next
  <2>3. CASE DropPermit(c)
    BY <2>3, SameActions DEF DropPermit, RegP!Next
  <2> QED
    BY <1>1, <2>1, <2>2, <2>3
    DEF CallStep, Call, Deliver, DeliverBroken, GiveUp, Answer, Forget
<1>2. CASE Crash
  BY <1>2, SameActions DEF Crash, RegP!Next
<1>3. CASE Restart \/ UNCHANGED vars
  BY <1>3 DEF Restart, vars
<1> QED
  BY <1>1, <1>2, <1>3, StepKinds

\* Whatever the door and the service do, the registry keeps its invariant.
LEMMA RegistryInvKept ==
    ASSUME RegP!RegistryInv, [Next]_vars
    PROVE  RegP!RegistryInv'
<1>1. [RegP!Next]_RegP!vars
  BY RegistryOnlyThroughActions DEF RegP!vars, registry
<1> QED
  BY <1>1, RegistryAssumptions, RegP!RegistryStep

-------------------------------------------------------------------------------
\* Types.

LEMMA DoorTypesInit == Init => DoorTypeOK
BY BoundAssumption DEF Init, DoorTypeOK, HandlerStages, NoReply, ToolStates

\* An answer in the making is a refusal, or the id of its own run.
LEMMA ReplyCases ==
    ASSUME NEW c \in Calls, CallInv(c), handler[c] = "answered"
    PROVE  \/ reply[c][1] = "200" /\ reply[c][2] = c /\ guard[c] # "unused"
           \/ reply[c][1] \in Refusals /\ reply[c][1] # "200" /\ guard[c] = "unused"
BY DEF CallInv, ReplyIsTrue, Refusals

\* No step leaves the types.
LEMMA DoorTypesKept ==
    ASSUME RegP!RegistryInv, DoorTypeOK, \A c \in Calls : CallInv(c), [Next]_vars
    PROVE  DoorTypeOK'
<1> USE DEF DoorTypeOK, service
<1>1. ASSUME NEW c \in Calls, NEW q \in Requests[c], Call(c, q) PROVE DoorTypeOK'
  BY <1>1 DEF Call, HandlerStages, ToolStates
<1>2. ASSUME NEW c \in Calls, Deliver(c) PROVE DoorTypeOK'
  BY <1>2, ReplyCases DEF Deliver
<1>3. ASSUME NEW c \in Calls, DeliverBroken(c) \/ GiveUp(c) PROVE DoorTypeOK'
  BY <1>3 DEF DeliverBroken, GiveUp, ToolStates
<1>4. ASSUME NEW c \in Calls, Handle(c) PROVE DoorTypeOK'
  BY <1>4, HandleCases DEF HandlerStages
<1>5. ASSUME NEW c \in Calls, Answer(c) PROVE DoorTypeOK'
  BY <1>5 DEF Answer, HandlerStages
<1>6. ASSUME NEW c \in Calls, Forget(c) PROVE DoorTypeOK'
  BY <1>6 DEF Forget, HandlerStages
<1>7. ASSUME NEW c \in Calls, RunEnds(c) \/ DropPermit(c) PROVE DoorTypeOK'
  BY <1>7 DEF RunEnds, DropPermit
<1>8. CASE Crash
  <2>1. handler' \in [Calls -> HandlerStages]
    BY <1>8 DEF Crash, HandlerStages
  <2>2. crashes' \in 0..MaxCrashes
    BY <1>8, BoundAssumption DEF Crash
  <2> QED
    BY <1>8, <2>1, <2>2 DEF Crash
<1>9. CASE Restart \/ UNCHANGED vars
  BY <1>9 DEF Restart, vars
<1> QED
  BY <1>1, <1>2, <1>3, <1>4, <1>5, <1>6, <1>7, <1>8, <1>9, StepKinds DEF CallStep

-------------------------------------------------------------------------------
\* The invariant of a call.

LEMMA CallInit == Init => \A c \in Calls : CallInv(c)
BY RunIdAssumption
DEF Init, Reg!Init, CallInv, CallIsPosted, GuardIsAskedFor, ReplyIsTrue, ResultIsTrue,
    Refusals, ToolStates

\* A call that is left alone.
LEMMA CallSame ==
    ASSUME NEW d \in Calls, CallInv(d), SameCall(d)
    PROVE  CallInv(d)'
BY DEF CallInv, CallIsPosted, GuardIsAskedFor, ReplyIsTrue, ResultIsTrue, SameCall

\* A step of one call leaves the others alone.
LEMMA OthersKept ==
    ASSUME RegP!RegistryInv, DoorTypeOK, NEW c \in Calls, CallStep(c)
    PROVE  \A d \in Calls : d # c => SameCall(d)
<1> USE DEF DoorTypeOK, SameCall, registry
<1>0. guard \in [Calls -> RegP!GuardStates] /\ lockDir \in [Calls -> Paths \cup {NoDir}]
  BY DEF RegP!RegistryInv, RegP!TypeOK
<1>1. CASE \/ \E q \in Requests[c] : Call(c, q)
           \/ Deliver(c) \/ DeliverBroken(c) \/ GiveUp(c) \/ Answer(c) \/ Forget(c)
  BY <1>1 DEF Call, Deliver, DeliverBroken, GiveUp, Answer, Forget
<1>2. CASE Handle(c)
  BY <1>0, <1>2, HandleCases DEF RegP!Admit
<1>3. CASE RunEnds(c) \/ DropPermit(c)
  BY <1>0, <1>3 DEF RunEnds, DropPermit, Reg!DropEntry, Reg!DropPermit
<1> QED
  BY <1>1, <1>2, <1>3 DEF CallStep

\* A step of a call keeps what is known of it.
LEMMA CallOwn ==
    ASSUME RegP!RegistryInv, DoorTypeOK, NEW c \in Calls, CallInv(c), CallStep(c)
    PROVE  CallInv(c)'
<1> USE RunIdAssumption
    DEF DoorTypeOK, CallInv, CallIsPosted, GuardIsAskedFor, ReplyIsTrue, ResultIsTrue, registry
<1>0. guard \in [Calls -> RegP!GuardStates] /\ lockDir \in [Calls -> Paths \cup {NoDir}]
  BY DEF RegP!RegistryInv, RegP!TypeOK
<1>1. ASSUME NEW q \in Requests[c], Call(c, q) PROVE CallInv(c)'
  BY <1>1 DEF Call, Refusals, ToolStates
<1>2. CASE Deliver(c)
  <2>1. \/ result'[c] = c /\ guard[c] # "unused"
        \/ result'[c] \in Refusals /\ guard[c] = "unused"
    BY <1>2, ReplyCases DEF Deliver
  <2> QED
    BY <1>2, <2>1 DEF Deliver, Refusals, ToolStates
<1>3. CASE DeliverBroken(c)
  BY <1>3, ReplyCases DEF DeliverBroken, Refusals, ToolStates
<1>4. CASE GiveUp(c)
  BY <1>4 DEF GiveUp, Refusals, ToolStates
<1>5. CASE Handle(c)
  BY <1>0, <1>5, HandleCases DEF RegP!Admit, Key, service
<1>6. CASE Answer(c)
  BY <1>6 DEF Answer
<1>7. CASE Forget(c)
  BY <1>7 DEF Forget, Refusals, ToolStates
<1>8. CASE RunEnds(c) \/ DropPermit(c)
  BY <1>0, <1>8 DEF RunEnds, DropPermit, Reg!DropEntry, Reg!DropPermit
<1> QED
  BY <1>1, <1>2, <1>3, <1>4, <1>5, <1>6, <1>7, <1>8 DEF CallStep

\* A crash takes the guards and some of the answers with it.
LEMMA CallCrash ==
    ASSUME RegP!RegistryInv, DoorTypeOK, \A c \in Calls : CallInv(c), Crash
    PROVE  \A c \in Calls : CallInv(c)'
<1> SUFFICES ASSUME NEW c \in Calls PROVE CallInv(c)'
  OBVIOUS
<1>1. /\ UNCHANGED <<request, reply, result, lockDir>>
      /\ handler'[c] = handler[c] \/ (handler'[c] = "gone" /\ handler[c] # "none")
  BY DEF Crash, Reg!Restart, DoorTypeOK
<1>2. guard'[c] = "unused" <=> guard[c] = "unused"
  BY DEF Crash, Reg!Restart, Reg!Outstanding
<1> QED
  BY <1>1, <1>2 DEF CallInv, CallIsPosted, GuardIsAskedFor, ReplyIsTrue, ResultIsTrue

-------------------------------------------------------------------------------
\* The inductive invariant and what follows from it.

LEMMA DoorInit == Init => DoorInv
<1>1. Init => RegP!RegistryInv
  BY SameActions, RegistryAssumptions, RegP!RegistryInit DEF Init
<1> QED
  BY <1>1, DoorTypesInit, CallInit DEF DoorInv

\* Every step keeps the invariant.
LEMMA DoorStep == DoorInv /\ [Next]_vars => DoorInv'
<1> SUFFICES ASSUME DoorInv, [Next]_vars PROVE DoorInv'
  OBVIOUS
<1>1. RegP!RegistryInv' /\ DoorTypeOK'
  BY RegistryInvKept, DoorTypesKept DEF DoorInv
<1>2. \A c \in Calls : CallInv(c)'
  <2>1. ASSUME NEW c \in Calls, CallStep(c) PROVE \A d \in Calls : CallInv(d)'
    BY <2>1, OthersKept, CallOwn, CallSame DEF DoorInv
  <2>2. CASE Restart \/ UNCHANGED vars
    BY <2>2, CallSame DEF DoorInv, Restart, vars, registry, SameCall
  <2> QED
    BY <2>1, <2>2, CallCrash, StepKinds DEF DoorInv
<1> QED
  BY <1>1, <1>2 DEF DoorInv

\* Whatever calls, timeouts, broken answers, crashes and restarts come together, a guard
\* belongs to the directory its call asked for, and every answer is true of it.
THEOREM DoorCorrect == Spec => []DoorInv
BY DoorInit, DoorStep, PTL DEF Spec

\* Every variable keeps its type, those of the registry included.
THEOREM TypeCorrect == Spec => []TypeOK
<1>1. DoorInv => TypeOK
  BY DEF DoorInv, DoorTypeOK, CallInv, CallIsPosted, TypeOK, RegP!RegistryInv, RegP!TypeOK,
     Reg!TypeOK, RegP!Permits, Reg!Permits, RegP!GuardStates, Reg!GuardStates
<1> QED
  BY <1>1, DoorCorrect, PTL

\* The run id a call returns is its own, of the directory it asked for.
THEOREM ResultsAreOwnRuns == Spec => []ResultIsOwnRun
<1>1. DoorInv => ResultIsOwnRun
  BY DEF DoorInv, CallInv, GuardIsAskedFor, ResultIsTrue, ResultIsOwnRun
<1> QED
  BY <1>1, DoorCorrect, PTL

\* No run was admitted for a call that was refused.
THEOREM RefusalsStartNothing == Spec => []RefusalStartsNothing
<1>1. DoorInv => RefusalStartsNothing
  BY DEF DoorInv, CallInv, ResultIsTrue, RefusalStartsNothing
<1> QED
  BY <1>1, DoorCorrect, PTL

\* Two runs under way at once work in different real directories, however their
\* callers spelled them.
THEOREM RunsAreApart == Spec => []NeverSideBySide
<1>1. DoorInv => NeverSideBySide
  <2> SUFFICES ASSUME DoorInv, NEW c \in Calls, NEW d \in Calls, c # d,
                      guard[c] = "held", guard[d] = "held"
               PROVE  Canon[request[c].path] # Canon[request[d].path]
    BY DEF NeverSideBySide
  <2>1. inflight[lockDir[c]] = c /\ inflight[lockDir[d]] = d
    BY DEF DoorInv, RegP!RegistryInv, RegP!GuardOwnsEntry
  <2>2. lockDir[c] = Canon[request[c].path] /\ lockDir[d] = Canon[request[d].path]
    BY DEF DoorInv, CallInv, GuardIsAskedFor
  <2> QED
    BY <2>1, <2>2
<1> QED
  BY <1>1, DoorCorrect, PTL

================================================================================
