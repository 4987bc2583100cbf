------------------------------- MODULE MC_Door -------------------------------
(***************************************************************************)
(* Three calls and two permits.  One directory has a second name, so three *)
(* spellings compete for two directories; a fourth request is refused      *)
(* after it has passed the other checks, since it names a file.            *)
(*                                                                         *)
(* The root is configured by a link, beside one that does not exist.  The  *)
(* checks on a request depend on nothing that changes: the cases of the    *)
(* tests in auth.rs and allowlist.rs are assumed here, and TLC evaluates   *)
(* them.                                                                   *)
(***************************************************************************)
EXTENDS Door

CONSTANTS srv, work, worksecrets, a, b, maintf, alias, etc, gone, relative, badToken

Root == <<srv, work>>
DirA == Root \o <<a>>
DirB == Root \o <<b>>
File == Root \o <<maintf>>
LinkA    == <<alias, a>>
RootLink == <<alias>>
Sibling  == <<srv, worksecrets>>
Outside  == <<etc>>
Missing  == Root \o <<gone>>
Relative == <<relative>>
Escape   == Root \o <<alias, etc>>   \* a link inside the root to a directory outside

AllPaths == {Root, DirA, DirB, File, LinkA, RootLink, Sibling, Outside, Missing,
             Relative, Escape}
CanonOf == [p \in AllPaths |->
    CASE p = LinkA    -> DirA
      [] p = RootLink -> Root
      [] p = Escape   -> Outside
      [] p = Relative -> DirA
      [] p = Missing  -> Nowhere
      [] OTHER        -> p]
AllDirectories == {Root, DirA, DirB, Sibling, Outside}
ConfiguredRoots == {RootLink, Missing}
MalformedPaths == {Relative}

CONSTANTS c1, c2, c3

\* The calls differ in nothing but their requests, so not every call has to be
\* tried with every request.
PathsOf == [c \in {c1, c2, c3} |->
    CASE c = c1 -> {DirA, File}
      [] c = c2 -> {LinkA, DirB}
      [] c = c3 -> {DirA, DirB, File}]
Posted == [c \in Calls |-> [token : {Token}, path : PathsOf[c]]]

\* Which refusal each path meets; no configured token, or no root that resolves,
\* refuses everything.
ASSUME RefusalTable ==
    /\ \A p \in AllPaths, t \in {NoToken, badToken} : Refusal([token |-> t, path |-> p]) = "401"
    /\ \A p \in AllPaths : Refusal([token |-> Token, path |-> p]) =
          CASE p = Relative -> "400"
            [] p \in {Sibling, Outside, Missing, Escape} -> "403"
            [] p = File -> "422"
            [] OTHER -> "none"
    /\ \A p \in AllPaths, t \in {NoToken, badToken} :
          RefusalBy(NoToken, Roots, [token |-> t, path |-> p]) = "401"
    /\ \A p \in AllPaths : RefusalBy(Token, {}, [token |-> Token, path |-> p]) =
          IF p = Relative THEN "400" ELSE "403"

==============================================================================
