------------------------ MODULE MCServiceSeparated ------------------------
(***************************************************************************)
(* What overlaps, at two grains.  Either two calls of the service, store   *)
(* operation by store operation, that keep to names of their own.  Or two  *)
(* runs of one source and its deletion, statement by statement.  The two   *)
(* do not meet; grain says which of them a behaviour is about.             *)
(***************************************************************************)
EXTENDS MCRoleProvider, SyncRun

CONSTANTS r1, r2

e1 == MkEntry(a, "member", Person)
e2 == MkEntry(b, "member", Person)
e3 == MkEntry(a, "member", GroupSubject(b, "member"))

\* Nothing, two files with nothing in common, and one that holds both and
\* fills the group of the first through the group of the second.
MCFiles == {{}, {e1}, {e2}, {e1, e2, e3}}

\* The second is left when a run that empties a prunes it while another, which
\* has read that a exists, brings e1.
MCEarlier ==
    { [file |-> {e1}, lost |-> {}], [file |-> {e1}, lost |-> {a}],
      [file |-> {e1, e2, e3}, lost |-> {}] }

-----------------------------------------------------------------------------

VARIABLE grain

MCInit ==
    /\ grain \in {"operation", "statement"}
    /\ Init /\ SyncInit
    /\ grain = "operation" => EntriesOf(rows) = {e1} /\ groupRow[a] = Source

MCNext ==
    \/ grain = "operation" /\ Next /\ UNCHANGED <<grain, syncVars>>
    \/ /\ grain = "statement" /\ (SyncNext \/ SyncOver)
       /\ UNCHANGED <<grain, vars>>

MCSpec ==
    /\ MCInit /\ [][MCNext]_<<grain, vars, syncVars>>
    /\ \A x \in Calls : WF_syncVars(grain = "statement" /\ SyncStep(x)
                                    /\ UNCHANGED <<grain, vars>>)
=============================================================================
