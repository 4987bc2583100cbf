--------------------------------- MODULE Door ---------------------------------
(***************************************************************************)
(* A trigger on its way from an agent's MCP door                           *)
(* (src/tf-apply-mcp/src/main.rs, tf_apply) through the checks of          *)
(* POST /apply (auth.rs, allowlist.rs, routes.rs) to the LockRegistry, and *)
(* the answer on its way back.  The door waits for a bounded time; the     *)
(* handler does not know whether anybody still waits.                      *)
(*                                                                         *)
(* What a run does between its start and the drop of its guard is the      *)
(* subject of Runner; here a run just ends.                                *)
(***************************************************************************)
EXTENDS Naturals, FiniteSets, Sequences

LOCAL INSTANCE SequencesExt

CONSTANTS Calls,               \* calls of the tf_apply tool, by any agent
          Paths,               \* paths as callers and the configuration spell them,
                               \* each the sequence of its components
          Malformed,           \* those that are empty, relative, or hold control characters
          Canon,               \* Canon[p]: the real path of p, or Nowhere
          Nowhere,             \* what a path that does not resolve resolves to
          Directories,         \* real paths of directories
          AllowedRoots,        \* TF_ALLOWED_ROOTS, as spelled
          Token, NoToken,      \* X_RUNNER_TOKEN; the empty or missing one
          Requests,            \* Requests[c]: what call c may post, tokens with paths
          NoRun, NoDir, MaxConcurrentRuns,   \* as in LockRegistry
          MaxCrashes           \* bound: how often the service dies

ASSUME RegistryAssumption ==
    /\ IsFiniteSet(Calls) /\ NoRun \notin Calls
    /\ IsFiniteSet(Paths) /\ NoDir \notin Paths
    /\ MaxConcurrentRuns \in Nat
ASSUME PathAssumption ==
    /\ Malformed \subseteq Paths /\ AllowedRoots \subseteq Paths
    /\ Directories \subseteq Paths
    /\ Canon \in [Paths -> Paths \cup {Nowhere}] /\ Nowhere \notin Paths
    /\ \A c \in Calls : \A q \in Requests[c] : q.path \in Paths
ASSUME BoundAssumption == MaxCrashes \in Nat

VARIABLES inflight, sem, guard, lockDir    \* the LockRegistry of the service

\* Every trigger mints a fresh run id: here the run of a call has its name.
Reg == INSTANCE LockRegistry WITH Dirs <- Paths, Runs <- Calls

VARIABLES
    up,        \* is the service running?
    crashes,   \* how often it died
    request,   \* request[c]: what call c posts
    handler,   \* handler[c]: how far the service is with it
    reply,     \* reply[c]: status code and run id of the response
    result     \* result[c]: "idle", "waiting", or what the tool has returned

registry == <<inflight, sem, guard, lockDir>>
service  == <<up, crashes>>
vars     == <<registry, service, request, handler, reply, result>>

\* Nothing is posted yet.
NoRequest  == [token |-> NoToken, path |-> NoDir]
Refusals   == {"400", "401", "403", "409", "422", "429"}
ToolStates == {"idle", "waiting", "unreachable", "unreadable"}

\* A run id is a UUID: none is mistaken for what else a tool call may hold.
ASSUME RunIdAssumption == Calls \cap (Refusals \cup ToolStates) = {}

NoReply    == <<"none", NoRun>>
HandlerStages == {"none", "posted", "admitted", "answered", "gone"}

-------------------------------------------------------------------------------
\* check_token: the presented token equals the configured one, and neither is empty.
Authorized(configured, presented) ==
    configured # NoToken /\ presented # NoToken /\ presented = configured

\* canonicalize_roots: a configured root counts with its real path, or not at all.
Roots == {Canon[p] : p \in AllowedRoots} \ {Nowhere}

\* Below a root, compared by whole components.
InAllowlist(roots, real) == \E root \in roots : IsPrefix(root, real)

\* The checks of POST /apply before admission, in their order: the token, then the
\* spelling, then whether it resolves to a path below a root, then its kind.
RefusalBy(configured, roots, q) ==
    LET real == Canon[q.path] IN
    IF ~Authorized(configured, q.token) THEN "401"
    ELSE IF q.path \in Malformed THEN "400"
    ELSE IF real = Nowhere \/ ~InAllowlist(roots, real) THEN "403"
    ELSE IF real \notin Directories THEN "422"
    ELSE "none"

Refusal(q) == RefusalBy(Token, Roots, q)

\* Faulty variant: the lock key is the path as the caller spelled it.
Key_Raw(q) == q.path

\* The lock key, and the directory terraform works in.
Key(q) == Canon[q.path]

-------------------------------------------------------------------------------
Init ==
    /\ Reg!Init
    /\ up = TRUE /\ crashes = 0
    /\ request = [c \in Calls |-> NoRequest]
    /\ handler = [c \in Calls |-> "none"]
    /\ reply = [c \in Calls |-> NoReply]
    /\ result = [c \in Calls |-> "idle"]

\* The door.

\* An agent calls the tool, for the first time or once more after an error.  A
\* service that is down refuses the connection.
Call(c, q) ==
    /\ result[c] = "idle"
    /\ result' = [result EXCEPT ![c] = "waiting"]
    /\ request' = [request EXCEPT ![c] = q]
    /\ handler' = [handler EXCEPT ![c] = IF up THEN "posted" ELSE "gone"]
    /\ UNCHANGED <<registry, service, reply>>

\* Faulty variant: the run id is looked for in every body.
Deliver_AnyBody(c) ==
    /\ result[c] = "waiting" /\ handler[c] = "answered"
    /\ result' = [result EXCEPT ![c] = IF reply[c][2] # NoRun THEN reply[c][2] ELSE reply[c][1]]
    /\ UNCHANGED <<registry, service, request, handler, reply>>

\* The response arrives in time: of a success the run id is returned, of a
\* refusal the status code only.
Deliver(c) ==
    /\ result[c] = "waiting" /\ handler[c] = "answered"
    /\ result' = [result EXCEPT ![c] = IF reply[c][1] = "200" THEN reply[c][2] ELSE reply[c][1]]
    /\ UNCHANGED <<registry, service, request, handler, reply>>

\* The status line of a success has arrived but the body breaks off, with the
\* service or with the time: of a refusal the body is not looked at.
DeliverBroken(c) ==
    /\ result[c] = "waiting" /\ handler[c] = "answered" /\ reply[c][1] = "200"
    /\ result' = [result EXCEPT ![c] = "unreadable"]
    /\ UNCHANGED <<registry, service, request, handler, reply>>

\* RUNNER_TIMEOUT has passed, or the connection broke or was refused.
GiveUp(c) ==
    /\ result[c] = "waiting"
    /\ result' = [result EXCEPT ![c] = "unreachable"]
    /\ UNCHANGED <<registry, service, request, handler, reply>>

-------------------------------------------------------------------------------
\* The service.

\* Faulty variant: the run is admitted before its directory is checked.
Handle_AdmitsFirst(c) ==
    /\ up /\ handler[c] = "posted"
    /\ Canon[request[c].path] # Nowhere
    /\ Reg!Admit(Key(request[c]), c)
    /\ IF Refusal(request[c]) = "none"
       THEN handler' = [handler EXCEPT ![c] = "admitted"] /\ UNCHANGED reply
       ELSE /\ handler' = [handler EXCEPT ![c] = "answered"]
            /\ reply' = [reply EXCEPT ![c] = <<Refusal(request[c]), NoRun>>]
    /\ UNCHANGED <<service, request, result>>

\* The handler is polled, whether or not the door still waits: it has no await
\* point once the body is there.
Handle(c) ==
    /\ up /\ handler[c] = "posted"
    /\ LET q == request[c]
           refuse(code, r) ==
              /\ handler' = [handler EXCEPT ![c] = "answered"]
              /\ reply' = [reply EXCEPT ![c] = <<code, r>>]
              /\ UNCHANGED registry
       IN \/ Refusal(q) # "none" /\ refuse(Refusal(q), NoRun)
          \/ /\ Refusal(q) = "none"
             /\ \/ Reg!Verdict(Key(q)) = "in_progress" /\ refuse("409", inflight[Key(q)])
                \/ Reg!Verdict(Key(q)) = "at_capacity" /\ refuse("429", NoRun)
                \/ /\ Reg!Admit(Key(q), c)
                   /\ handler' = [handler EXCEPT ![c] = "admitted"]
                   /\ UNCHANGED reply
    /\ UNCHANGED <<service, request, result>>

\* The record is written, the run is detached, the run id is answered.
Answer(c) ==
    /\ up /\ handler[c] = "admitted"
    /\ handler' = [handler EXCEPT ![c] = "answered"]
    /\ reply' = [reply EXCEPT ![c] = <<"200", c>>]
    /\ UNCHANGED <<registry, service, request, result>>

\* A request whose door has given up may be dropped before it is handled: the HTTP
\* server does so when it finds the connection closed.
Forget(c) ==
    /\ handler[c] = "posted"
    /\ result[c] = "unreachable"
    /\ handler' = [handler EXCEPT ![c] = "gone"]
    /\ UNCHANGED <<registry, service, request, reply, result>>

\* A detached run ends, and its guard is dropped in two steps.
RunEnds(c) ==
    /\ handler[c] = "answered"
    /\ Reg!DropEntry(c)
    /\ UNCHANGED <<service, request, handler, reply, result>>

DropPermit(c) ==
    /\ Reg!DropPermit(c)
    /\ UNCHANGED <<service, request, handler, reply, result>>

\* The service dies with its runs, its registry and its open connections; what
\* it had written to a socket may still arrive.
Crash ==
    /\ up /\ crashes < MaxCrashes
    /\ up' = FALSE
    /\ crashes' = crashes + 1
    /\ Reg!Restart
    /\ \E kept \in SUBSET {c \in Calls : handler[c] = "answered"} :
          handler' = [c \in Calls |->
             IF handler[c] \in {"none", "gone"} \/ c \in kept THEN handler[c] ELSE "gone"]
    /\ UNCHANGED <<request, reply, result>>

Restart ==
    /\ ~up
    /\ up' = TRUE
    /\ UNCHANGED <<registry, crashes, request, handler, reply, result>>

\* All calls of the model have returned.
Idle == (\A c \in Calls : result[c] \notin {"idle", "waiting"}) /\ UNCHANGED vars

Next ==
    \/ \E c \in Calls : \E q \in Requests[c] : Call(c, q)
    \/ \E c \in Calls : Deliver(c) \/ DeliverBroken(c) \/ GiveUp(c) \/ Handle(c) \/ Answer(c) \/ Forget(c)
                         \/ RunEnds(c) \/ DropPermit(c)
    \/ Crash \/ Restart \/ Idle

Spec == Init /\ [][Next]_vars

-------------------------------------------------------------------------------
\* Every variable keeps its type, those of the registry included.
TypeOK ==
    /\ Reg!TypeOK
    /\ up \in BOOLEAN /\ crashes \in 0..MaxCrashes
    /\ request \in [Calls -> (UNION {Requests[c] : c \in Calls}) \cup {NoRequest}]
    /\ handler \in [Calls -> HandlerStages]
    /\ reply \in [Calls -> ({"none", "200"} \cup Refusals) \X (Calls \cup {NoRun})]
    /\ result \in [Calls -> Calls \cup Refusals \cup ToolStates]

\* The run id a tool call returns is the run of that very call, in the directory
\* it asked for, by whatever name, and not the run that stood in its way.  An answer
\* that was a success but could not be read hides a run that was started.
ResultIsOwnRun ==
    \A c \in Calls :
        /\ result[c] \in Calls => result[c] = c /\ lockDir[c] = Canon[request[c].path]
        /\ result[c] = "unreadable" => lockDir[c] = Canon[request[c].path]

\* A refused call has left nothing behind: no run was admitted for it, so an agent
\* that repeats it does not repeat a run.
RefusalStartsNothing ==
    \A c \in Calls : result[c] \in Refusals => guard[c] = "unused"

\* However a directory is spelled, and however often a trigger is repeated after
\* a lost answer, its runs follow one another: two runs under way at once work
\* in different real directories.
NeverSideBySide ==
    \A c, d \in Calls :
        c # d /\ guard[c] = "held" /\ guard[d] = "held"
            => Canon[request[c].path] # Canon[request[d].path]

\* As the door words it, "could not reach the tf-apply runner": no run was
\* started for the call.  The code says the same after a timeout, when the
\* handler may have been reached long ago.
UnreachableStartsNothing ==
    \A c \in Calls : result[c] = "unreachable" => guard[c] = "unused"

===============================================================================
