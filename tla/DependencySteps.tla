-------------------------- MODULE DependencySteps --------------------------
(***************************************************************************)
(* The resolution of configured adapters (run_steps in                      *)
(* src/scripts/dependency_api.py) and the retirement of temporary age       *)
(* exceptions after it (src/scripts/exception_retirement.py).  Steps and    *)
(* project hooks run in a declared order; a hook may change the content of  *)
(* any adapter and the policy itself.  Then every selected adapter is       *)
(* audited against the policy of the beginning, and an exception nobody     *)
(* needs any more is deleted.                                               *)
(*                                                                          *)
(* One package and one exception for it stand for all: every adapter here   *)
(* carries the package.  A policy list is absent, empty, or holds the       *)
(* exception; lists are replaced, not united, by a stronger one.            *)
(***************************************************************************)
EXTENDS Integers, FiniteSets, Sequences

CONSTANTS Adapter,     \* configured adapters that carry the package
          Phase,       \* 0 Nix inputs, 1 toolchains, 2 packages
          HookTargets, \* update targets that only hooks serve
          PlanChoices, \* the orders of steps a project may declare
          PolicyLists, \* lists in use: the document, and the adapter or "all"
          MaxEdits     \* bound on policy edits by hooks and what they left behind

ASSUME DependencyAssumption ==
  /\ Phase \in [Adapter -> 0..2] /\ HookTargets \cap Adapter = {}
  /\ PolicyLists \subseteq {1, 2} \X (Adapter \cup {"all"}) /\ "all" \notin Adapter
  /\ PlanChoices \subseteq
       Seq([kind : {"resolve", "hook"}, targets : SUBSET (Adapter \cup HookTargets)])
  /\ MaxEdits \in Nat

VARIABLES phase,    \* where the transaction is
          names,    \* the selected targets
          steps,    \* updates.steps
          next,     \* the step, or the document, that is next
          resolved, \* the adapters resolved so far, in order
          served,   \* the targets whose hooks have run
          content,  \* what each adapter's lock holds of the package
          lists,    \* the policy lists as they are
          other,    \* the rest of each document: the number of its last edit
          origin,   \* the lists when the transaction began
          passed,   \* adapters audited
          copy,     \* each document as retirement read it
          body,     \* each document as retirement will write it
          edits,    \* policy edits so far
          late      \* a document was edited after retirement had read it

depVars == <<phase, names, steps, next, resolved, served, content, lists, other, origin, passed,
             copy, body, edits, late>>

Documents == {1, 2}
ListStates == {"none", "empty", "x"}
\* Content is the baseline's or not, and old enough on its own or not.
Holdings == [new : BOOLEAN, mature : BOOLEAN]
Unread == [other |-> 0, lists |-> <<>>]
DepTypeOK ==
  /\ phase \in {"plans", "steps", "reads", "writes", "inspects", "done", "failed"}
  /\ names \subseteq Adapter \cup HookTargets /\ steps \in PlanChoices
  /\ next \in 1..(Len(steps) + 2) /\ resolved \in Seq(Adapter) /\ served \subseteq Adapter \cup HookTargets
  /\ content \in [Adapter -> Holdings]
  /\ lists \in [PolicyLists -> ListStates] /\ origin \in [PolicyLists -> ListStates]
  /\ other \in [Documents -> 0..MaxEdits] /\ passed \subseteq Adapter
  /\ DOMAIN copy = Documents /\ DOMAIN body = Documents
  /\ edits \in 0..MaxEdits /\ late \in BOOLEAN

\* policy_documents, baselines and the effective policies are taken before any step.
DepInit ==
  /\ phase = "plans" /\ names \in (SUBSET (Adapter \cup HookTargets)) \ {{}}
  /\ steps \in PlanChoices /\ next = 1 /\ resolved = <<>> /\ served = {}
  /\ content \in [Adapter -> [new : {FALSE}, mature : BOOLEAN]]
  /\ lists \in [PolicyLists -> ListStates] /\ origin = lists
  /\ other = [d \in Documents |-> 0] /\ passed = {} /\ copy = [d \in Documents |-> Unread]
  /\ body = [d \in Documents |-> Unread] /\ edits = 0 /\ late = FALSE

----------------------------------------------------------------------------
\* An adapter's own list replaces the shared one, the second document's the first's.
Shared(l) == l[2] = "all"
Stronger(l, m) == (Shared(m) /\ ~Shared(l)) \/ ((Shared(l) <=> Shared(m)) /\ l[1] > m[1])
Concerns(l, n) == l[2] \in {"all", n}
Excepts(policy, n) ==
  \E l \in PolicyLists :
     /\ Concerns(l, n) /\ policy[l] = "x"
     /\ \A m \in PolicyLists \ {l} :
          Concerns(m, n) /\ policy[m] # "none" => Stronger(l, m)
\* has_exceptions looks at the merged lists: a shadowed exception is none.
HasExceptions ==
  \E l \in PolicyLists : origin[l] = "x"
     /\ \A m \in PolicyLists \ {l} : m[2] = l[2] /\ origin[m] # "none" => l[1] > m[1]

Resolves(i) == steps[i].kind = "resolve"
SelectedAdapters == names \cap Adapter
Covered == UNION {steps[i].targets : i \in DOMAIN steps}
\* A later step may not be of an earlier phase; adapters not selected do not count.
InPhase_Wrong == TRUE \* Mutated form: any order is accepted.
InPhase == \A i, j \in DOMAIN steps : \A n, m \in SelectedAdapters :
             i < j /\ Resolves(i) /\ Resolves(j) /\ n \in steps[i].targets /\ m \in steps[j].targets
             => Phase[n] <= Phase[m]
PlanHolds ==
  /\ \A i, j \in DOMAIN steps :
       i # j /\ Resolves(i) /\ Resolves(j) => steps[i].targets # steps[j].targets
  /\ InPhase /\ names \subseteq Covered
  /\ \A n \in SelectedAdapters : \E i \in DOMAIN steps : Resolves(i) /\ steps[i].targets = {n}
PlanSteps == /\ phase = "plans" /\ phase' = IF PlanHolds THEN "steps" ELSE "failed"
             /\ UNCHANGED <<names, steps, next, resolved, served, content, lists, other, origin,
                            passed, copy, body, edits, late>>

StepDue == phase = "steps" /\ next <= Len(steps)
ResolveAdapter(n, c) ==
  /\ StepDue /\ Resolves(next) /\ steps[next].targets = {n} /\ next' = next + 1
  /\ IF n \in names
     THEN /\ content' = [content EXCEPT ![n] = c] /\ resolved' = Append(resolved, n)
          /\ c.new \/ c = content[n]
     ELSE c = content[n] /\ UNCHANGED <<content, resolved>>
  /\ UNCHANGED <<phase, names, steps, served, lists, other, origin, passed, copy, body, edits,
                 late>>

\* Hooks without targets always run, the others for a selected target.
Due(targets) == targets = {} \/ targets \cap names # {}
EditPolicy ==
  /\ edits < MaxEdits /\ edits' = edits + 1
  /\ \/ \E l \in PolicyLists, s \in ListStates :
          s # lists[l] /\ lists' = [lists EXCEPT ![l] = s] /\ UNCHANGED other
     \/ \E d \in Documents : other' = [other EXCEPT ![d] = edits + 1] /\ UNCHANGED lists
RunHook ==
  /\ StepDue /\ ~Resolves(next) /\ next' = next + 1
  /\ IF Due(steps[next].targets)
     THEN /\ served' = served \cup steps[next].targets
          /\ \/ /\ \E n \in Adapter, c \in Holdings :
                     (c.new \/ c = content[n]) /\ content' = [content EXCEPT ![n] = c]
                /\ UNCHANGED <<lists, other, edits>>
             \/ EditPolicy /\ UNCHANGED content
     ELSE UNCHANGED <<served, content, lists, other, edits>>
  /\ UNCHANGED <<phase, names, steps, resolved, origin, passed, copy, body, late>>
StepFails ==
  /\ StepDue /\ phase' = "failed"
  /\ UNCHANGED <<names, steps, next, resolved, served, content, lists, other, origin, passed,
                 copy,
                 body, edits, late>>

----------------------------------------------------------------------------
\* audit: every selected adapter, after the last hook.  The baseline is exempt from
\* the age rule; anything else is old enough, or the original policy excepts it.
Passes(n) == ~content[n].new \/ content[n].mature \/ Excepts(origin, n)
AuditDue_Wrong(n) == phase = "steps" /\ \E i \in DOMAIN resolved : resolved[i] = n
   \* Mutated form: an adapter is audited as soon as it is resolved.
AuditDue(n) == phase = "steps" /\ next > Len(steps) /\ n \in SelectedAdapters
AuditAdapter(n) ==
  /\ AuditDue(n) /\ n \notin passed
  /\ IF Passes(n) THEN passed' = passed \cup {n} /\ UNCHANGED phase
                  ELSE phase' = "failed" /\ UNCHANGED passed
  /\ UNCHANGED <<names, steps, next, resolved, served, content, lists, other, origin, copy, body,
                 edits, late>>
BeginRetire ==
  /\ phase = "steps" /\ next > Len(steps) /\ passed = SelectedAdapters /\ next' = 1
  /\ phase' = IF HasExceptions THEN "reads" ELSE "inspects"
  /\ UNCHANGED <<names, steps, resolved, served, content, lists, other, origin, passed, copy,
                 body, edits, late>>

\* An entry goes when every adapter it could concern was audited, has it from the
\* original policy, and holds nothing young of the package.
ScopeOf(l) == {n \in Adapter : Concerns(l, n)}
Proven_Wrong(l) == /\ ScopeOf(l) \cap passed # {} \* Mutated form: one audited adapter is enough.
                   /\ \A n \in ScopeOf(l) \cap passed : Excepts(origin, n) /\ content[n].mature
Proven(l) == /\ ScopeOf(l) \subseteq passed
             /\ \A n \in ScopeOf(l) : Excepts(origin, n) /\ content[n].mature
Entries(d) == {l \in PolicyLists : l[1] = d /\ origin[l] = "x"}
Retired(d) == {l \in Entries(d) : Proven(l)}
Now(d) == [other |-> other[d], lists |-> [l \in {m \in PolicyLists : m[1] = d} |-> lists[l]]]
\* permitted: only whole allowed entries may have gone.  A list that was empty may be gone.
Permitted(doc, allowed) ==
  /\ doc.other = 0
  /\ \A l \in DOMAIN doc.lists :
       CASE origin[l] = "none" -> doc.lists[l] = "none"
         [] origin[l] = "empty" -> doc.lists[l] # "x"
         [] origin[l] = "x" -> doc.lists[l] = "x" \/ l \in allowed
Emptied_Wrong == "none" \* Mutated form: a list without entries is deleted.
Emptied == "empty"
Rendered(doc, allowed) ==
  [doc EXCEPT !.lists = [l \in DOMAIN doc.lists |->
                           IF l \in allowed THEN Emptied ELSE doc.lists[l]]]
ReadDocument(d) ==
  /\ phase = "reads" /\ next = d
  /\ IF Permitted(Now(d), Retired(d))
     THEN /\ copy' = [copy EXCEPT ![d] = Now(d)]
          /\ body' = [body EXCEPT ![d] = Rendered(Now(d), Retired(d))]
          /\ IF d = 2 THEN phase' = "writes" /\ next' = 1 ELSE next' = d + 1 /\ UNCHANGED phase
     ELSE phase' = "failed" /\ UNCHANGED <<next, copy, body>>
  /\ UNCHANGED <<names, steps, resolved, served, content, lists, other, origin, passed, edits,
                 late>>
\* The document is written only if it still is what was read.
Untouched_Wrong(d) == TRUE \* Mutated form: the second reading is left out.
Untouched(d) == Now(d) = copy[d]
WriteDocument(d) ==
  /\ phase = "writes" /\ next = d
  /\ IF Untouched(d)
     THEN /\ lists' = [l \in PolicyLists |->
                         IF l[1] = d THEN body[d].lists[l] ELSE lists[l]]
          /\ other' = [other EXCEPT ![d] = body[d].other]
          /\ IF d = 2 THEN phase' = "inspects" /\ next' = 1 ELSE next' = d + 1 /\ UNCHANGED phase
     ELSE phase' = "failed" /\ UNCHANGED <<next, lists, other>>
  /\ UNCHANGED <<names, steps, resolved, served, content, origin, passed, copy, body, edits,
                 late>>
\* check_policy_changes: the whole transaction may have dropped entries, nothing else.
InspectPolicy ==
  /\ phase = "inspects"
  /\ phase' = IF \A d \in Documents : Permitted(Now(d), Entries(d)) THEN "done" ELSE "failed"
  /\ UNCHANGED <<names, steps, next, resolved, served, content, lists, other, origin, passed,
                 copy,
                 body, edits, late>>
\* Something a hook left behind edits a document.
LeftoverEdits ==
  /\ phase \in {"steps", "reads", "writes", "inspects"} /\ EditPolicy
  /\ late' = (late \/ phase \in {"writes", "inspects"} \/ (phase = "reads" /\ next > 1))
  /\ UNCHANGED <<phase, names, steps, next, resolved, served, content, origin, passed, copy,
                 body>>

DepNext ==
  \/ PlanSteps \/ RunHook \/ StepFails \/ BeginRetire \/ InspectPolicy \/ LeftoverEdits
  \/ \E n \in Adapter : AuditAdapter(n) \/ \E c \in Holdings : ResolveAdapter(n, c)
  \/ \E d \in Documents : ReadDocument(d) \/ WriteDocument(d)
DepSpec == DepInit /\ [][DepNext]_depVars

----------------------------------------------------------------------------
\* A finished resolution has audited what every selected adapter holds in the end,
\* hooks that ran after its resolver included, against the original policy.
CompletedIsAudited ==
  phase = "done" => \A n \in SelectedAdapters :
                   ~content[n].new \/ content[n].mature \/ Excepts(origin, n)

\* A finished resolution has served every selected target, each adapter once and
\* none before an adapter of an earlier phase.
PlanIsServed ==
  phase = "done" =>
    /\ \A n \in SelectedAdapters : Cardinality({i \in DOMAIN resolved : resolved[i] = n}) = 1
    /\ names \ Adapter \subseteq served
    /\ \A i, j \in DOMAIN resolved : i < j => Phase[resolved[i]] <= Phase[resolved[j]]

\* An adapter loses its exception only when what it holds is old enough without it
\* (edits made behind retirement's back excepted).
RetiredIsUnneeded ==
  phase = "done" /\ ~late =>
    \A n \in Adapter : Excepts(origin, n) /\ ~Excepts(lists, n)
                       => n \in passed /\ content[n].mature

\* The exception an adapter has in the end comes from the list it came from before:
\* retirement never uncovers one that a stronger list hides, unless a hook deleted
\* a list that was empty from the beginning.
Speaks(policy, n, l) == /\ Concerns(l, n) /\ policy[l] = "x"
                        /\ \A m \in PolicyLists \ {l} :
                             Concerns(m, n) /\ policy[m] # "none" => Stronger(l, m)
NoExceptionReturns ==
  phase = "done" /\ ~late =>
    \A n \in Adapter, l \in PolicyLists :
      Speaks(lists, n, l) =>
        \/ Speaks(origin, n, l)
        \/ \E m \in PolicyLists : Concerns(m, n) /\ origin[m] = "empty" /\ lists[m] = "none"

\* An edit of a policy document is never undone by retirement's write.
PolicyEditsStay ==
  [][\A d \in Documents : other'[d] # other[d] => edits' # edits]_depVars
=============================================================================
