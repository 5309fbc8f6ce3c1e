------------------------------- MODULE HookScan -------------------------------
(***************************************************************************)
(* The Trojan Source check of a push (src/nix/control/hook_scan.go and      *)
(* worker() in src/scripts/trojan_source.py).  Git names the pushed refs    *)
(* and what the remote has of them; the hook lists the outgoing revisions,  *)
(* takes the whole tree of the first and only the differences between       *)
(* neighbours after that, and the worker checks each blob once, remembering *)
(* clean ones per policy.                                                   *)
(***************************************************************************)
EXTENDS Integers, Sequences, FiniteSets, SequencesExt

CONSTANTS Commits,  \* 1 .. n, parents are smaller
          MaxPushes \* pushes of this checkout

ASSUME ScanAssumption ==
  Commits \subseteq Nat \ {0} /\ IsFiniteSet(Commits) /\ MaxPushes \in Nat

VARIABLES parents,  \* the history
          treeOf,   \* revision -> path -> blob
          remote,   \* commits the destination has
          policy,   \* a policy is the set of excepted <<path, blob>> pairs
          push,     \* the running push
          roots,    \* outgoing revisions, in order
          position, \* position in them
          pairs,    \* <<path, blob>> pairs found
          clean,    \* <<policy, blob>> pairs remembered
          pushes

scanVars == <<parents, treeOf, remote, policy, push, roots, position, pairs, clean, pushes>>

\* "src" is covered by the path patterns; "run" is not, but an executable file.
ScanPaths == {"src", "run"}
\* A blob without and with suspicious characters, and one that is no text.
Blobs == {"plain", "bad", "binary"}
Trees == [ScanPaths -> Blobs \cup {"none"}]
Policies == {{}, {<<"src", "bad">>}}

ScanTypeOK ==
  /\ parents \in [Commits -> SUBSET Commits] /\ treeOf \in [Commits -> Trees]
  /\ remote \subseteq Commits /\ policy \in Policies
  /\ push \in [pc : {"idle", "roots", "trees", "check", "passed", "refused"},
               local : SUBSET Commits, base : [Commits -> Commits \cup {0}], answers : BOOLEAN]
  /\ roots \in Seq(Commits) /\ position \in Nat /\ pairs \subseteq (ScanPaths \X Blobs)
  /\ clean \subseteq (Policies \X Blobs) /\ pushes \in 0..MaxPushes

\* A few trees are enough to tell the cases apart.
SomeTrees ==
  {t \in Trees : t["run"] = "none" \/ t["src"] = "none"}
ScanInit ==
  /\ parents \in [Commits -> SUBSET Commits] /\ \A c \in Commits : \A p \in parents[c] : p < c
  /\ treeOf \in [Commits -> SomeTrees]
  /\ remote = {} /\ policy \in Policies
  /\ push = [pc |-> "idle", local |-> {}, base |-> [c \in Commits |-> 0],
             answers |-> FALSE]
  /\ roots = <<>> /\ position = 1 /\ pairs = {} /\ clean = {} /\ pushes = 0

\* The commits in every set that has these and, with each, its parents.
Reached(from) ==
  {c \in Commits : \A S \in SUBSET Commits :
                     from \subseteq S /\ (\A d \in S : parents[d] \subseteq S) => c \in S}

----------------------------------------------------------------------------
\* Git starts the hook with one record per ref: the commit to push and the old
\* value of the remote ref, 0 when there is none or its object is not here.
\* `answers` tells whether the destination can be asked for its refs.
StartPush(local, base, answers, pol) ==
  /\ push.pc \in {"idle", "passed", "refused"} /\ pushes < MaxPushes /\ pushes' = pushes + 1
  /\ local # {} /\ \A c \in Commits : base[c] \in (IF c \in local THEN remote \cup {0} ELSE {0})
  /\ push' = [pc |-> "roots", local |-> local, base |-> base, answers |-> answers]
  /\ policy' = pol /\ roots' = <<>> /\ position' = 1 /\ pairs' = {}
  /\ UNCHANGED <<parents, treeOf, remote, clean>>

\* outgoing: what is excluded is what the remote said it has; a base that is not
\* here is replaced by the advertised refs, and without them nothing is excluded.
Excluded(c) ==
  IF push.base[c] # 0 THEN Reached({push.base[c]})
  ELSE IF push.answers THEN Reached(remote) ELSE {}

\* Mutated form: only the pushed tips count.
Revisions_Wrong(c) == {c}
\* rev-list, and the tip even if the remote has it.
Revisions(c) == (Reached({c}) \ Excluded(c)) \cup {c}

\* The revisions of a ref come parents first, those of one ref after those of
\* another: a parent that was excluded for the first may follow its child.
ListRevisions ==
  /\ push.pc = "roots" /\ push' = [push EXCEPT !.pc = "trees"]
  /\ LET out == UNION {Revisions(c) : c \in push.local} IN
     \E order \in SetToSeqs(out) :
       /\ \A i, j \in DOMAIN order : order[i] \in parents[order[j]] =>
            \/ i < j
            \/ \E l \in push.local : order[j] \in Revisions(l) /\ order[i] \notin Revisions(l)
       /\ roots' = order
  /\ UNCHANGED <<parents, treeOf, remote, policy, position, pairs, clean, pushes>>

EntriesOf(c) == {<<p, treeOf[c][p]>> : p \in {q \in ScanPaths : treeOf[c][q] # "none"}}
\* diff-tree: paths whose blob differs and is there afterwards.
Differences(old, new) == EntriesOf(new) \ EntriesOf(old)
\* Mutated form: a revision is compared with its first parent.
Previous_Wrong(i) == IF parents[roots[i]] = {} THEN 0 ELSE CHOOSE p \in parents[roots[i]] : TRUE
\* It is compared with the revision before it in the list, whatever the history.
Previous(i) == IF i = 1 THEN 0 ELSE roots[i - 1]

ReadRevision ==
  /\ push.pc = "trees" /\ position <= Len(roots) /\ position' = position + 1
  /\ pairs' = pairs \cup (IF Previous(position) = 0 THEN EntriesOf(roots[position])
                              ELSE Differences(Previous(position), roots[position]))
  /\ push' = [push EXCEPT !.pc = IF position = Len(roots) THEN "check" ELSE "trees"]
  /\ UNCHANGED <<parents, treeOf, remote, policy, roots, clean, pushes>>

\* The worker: excepted pairs are left out; a blob is source if one of its paths is.
SelectedBlobs == {b \in Blobs : \E p \in ScanPaths : <<p, b>> \in pairs \ policy}
IsSource(b) == <<"src", b>> \in pairs \ policy
Pending == {b \in SelectedBlobs : <<policy, b>> \notin clean}
\* What is no text is an error in a source file and is skipped elsewhere.
Refused == "bad" \in Pending \/ ("binary" \in Pending /\ IsSource("binary"))
Scanned == {b \in Pending : b # "binary"}

\* Mutated form: everything that raised no error is remembered, scanned or not.
Remembered_Wrong == Pending \ {"bad"}
\* Only blobs the scanner found clean are remembered, under this policy.
Remembered == Scanned \ {"bad"}

\* Clean blobs are recorded before a failure is reported.  A passed push reaches
\* the remote.
CheckBlobs ==
  /\ push.pc = "check"
  /\ clean' = IF "binary" \in Pending /\ IsSource("binary") THEN clean
              ELSE clean \cup {<<policy, b>> : b \in Remembered}
  /\ push' = [push EXCEPT !.pc = IF Refused THEN "refused" ELSE "passed"]
  /\ remote' = IF Refused THEN remote ELSE remote \cup Reached(push.local)
  /\ UNCHANGED <<parents, treeOf, policy, roots, position, pairs, pushes>>

ScanNext ==
  \/ ListRevisions \/ ReadRevision \/ CheckBlobs
  \/ \E local \in SUBSET Commits, base \in [Commits -> Commits \cup {0}], answers \in BOOLEAN,
        pol \in Policies : StartPush(local, base, answers, pol)
ScanSpec == ScanInit /\ [][ScanNext]_scanVars

----------------------------------------------------------------------------
\* What a revision may hold: no suspicious and no undecodable source file but
\* for the exceptions, and no suspicious executable.
Harmless(c) ==
  \A p \in ScanPaths :
    LET b == treeOf[c][p] IN
    /\ b = "bad" => <<p, b>> \in policy
    /\ (p = "src" /\ b = "binary") => <<p, b>> \in policy

\* When a push passes, every file of every revision the remote did not have has
\* been judged by the policy of this push: in whatever revision of the history it
\* appeared, and whatever earlier pushes remembered of its blob.
PassedIsHarmless ==
  [][(push.pc = "check" /\ push'.pc = "passed")
       => \A c \in Reached(push.local) \ remote : Harmless(c)]_scanVars

\* The tree that is proposed is judged even if the remote has all its commits.
TipsAreHarmless ==
  [][(push.pc = "check" /\ push'.pc = "passed") => \A c \in push.local : Harmless(c)]_scanVars
=============================================================================
