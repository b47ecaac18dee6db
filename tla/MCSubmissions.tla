--------------------------- MODULE MCSubmissions ---------------------------
EXTENDS Submissions, TLC

\* Categories 1 require details 1; without categories there are no details.
TheRules == {<<0, 0>>, <<1, 1>>}

\* Bound: of two requests at a time one writes a file, or both open a baseline.
\* An edit beside a copy is there all the same: the catalog's are no requests.
Few ==
    \A q, r \in Requests : q = r \/ \E p \in {q, r} : job[p].pc \in {"idle", "file"}
                           \/ {job[q].op, job[r].op} = {"baseline"}

Alike == Permutations(Requests)

=============================================================================
