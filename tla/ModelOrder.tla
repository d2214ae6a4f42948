----------------------------- MODULE ModelOrder -----------------------------
(***************************************************************************)
(* Which models a backup holds and in which order (dbs/introspect.py): the *)
(* chosen models, the parents of multi-table inheritance they need, and an *)
(* order in which parents come before children and, where no cycle of      *)
(* references prevents it, what is referred to before what refers to it.   *)
(***************************************************************************)
EXTENDS Integers, Sequences, FiniteSets, SequencesExt

CONSTANTS
    Listed,        \* the models of the project, in the order of apps.get_models
    Parents,       \* the possible inheritances: parents of every model
    References,          \* the possible foreign keys: models every model refers to
    Requests,       \* the possible choices: models named, or registered, or none
    Proxies, Unmanaged, Excluded, Reincluded   \* sets of models

All == {Listed[i] : i \in DOMAIN Listed}

VARIABLES
    parents, refs, chosen,
    configs,      \* the models of the plan, in the order they came in
    children,     \* children[m]: of a ParentRows configuration; {"own"} for the others
    pending, remaining, sweep, progressed, ordered, pc

vars == <<parents, refs, chosen, configs, children, pending, remaining, sweep, progressed, ordered, pc>>

Set(s) == {s[i] : i \in DOMAIN s}
Without(s, m) == SelectSeq(s, LAMBDA x : x # m)

\* get_parent_list: parents and their parents.
Ancestors(m) ==
    LET up(s) == s \cup UNION {parents[x] : x \in s}
    IN  up(up(parents[m]))

\* _excluded_labels, unmanaged_models_left_out, _discovered_models.
Discovered ==
    SelectSeq(Listed, LAMBDA m : /\ m \notin Proxies
                                 /\ m \in Unmanaged => m \in Reincluded
                                 /\ m \in Excluded => m \in Reincluded)

\* backup_plan: models given, the registry's, or all that are found.
Choose ==
    /\ pc = "choose"
    /\ configs' = IF chosen = <<>> THEN Discovered ELSE chosen
    /\ children' = [m \in All |-> IF m \in Set(configs') THEN {"own"} ELSE {}]
    /\ pending' = configs'
    /\ pc' = "parents"
    /\ UNCHANGED <<parents, refs, chosen, remaining, sweep, progressed, ordered>>

\* One child: its parents come in as ParentRows, and those learn of it.
AddParents ==
    /\ pc = "parents" /\ pending # <<>>
    /\ LET child == Head(pending)
           new == SetToSeq(parents[child] \ Set(configs))
       IN  /\ configs' = configs \o new
           /\ pending' = Tail(pending) \o new
           /\ children' = [m \in All |-> IF m \in parents[child] /\ "own" \notin children[m]
                                         THEN children[m] \cup {child} ELSE children[m]]
    /\ UNCHANGED <<parents, refs, chosen, remaining, sweep, progressed, ordered, pc>>

\* topological_order: sweep after sweep over what remains.
Deps(m) == (Ancestors(m) \cup (refs[m] \ {m})) \cap Set(configs)

StartSweep ==
    /\ \/ pc = "parents" /\ pending = <<>> /\ remaining' = configs
       \/ pc = "swept" /\ progressed /\ remaining # <<>> /\ UNCHANGED remaining
    /\ sweep' = remaining' /\ progressed' = FALSE
    /\ pc' = "sweep"
    /\ UNCHANGED <<parents, refs, chosen, configs, children, pending, ordered>>

Visit ==
    /\ pc = "sweep" /\ sweep # <<>>
    /\ LET m == Head(sweep)
           ready == Deps(m) \subseteq Set(ordered)
       IN  /\ ordered' = IF ready THEN Append(ordered, m) ELSE ordered
           /\ remaining' = IF ready THEN Without(remaining, m) ELSE remaining
           /\ progressed' = (progressed \/ ready)
    /\ sweep' = Tail(sweep)
    /\ UNCHANGED <<parents, refs, chosen, configs, children, pending, pc>>

EndSweep ==
    /\ pc = "sweep" /\ sweep = <<>> /\ pc' = "swept"
    /\ UNCHANGED <<parents, refs, chosen, configs, children, pending, remaining, sweep, progressed, ordered>>

\* The first whose ancestors are there.
Breaker ==
    LET free == SelectSeq(remaining, LAMBDA m : Ancestors(m) \cap Set(configs) \subseteq Set(ordered))
    IN  IF free = <<>> THEN Head(remaining) ELSE Head(free)

BreakCycle ==
    /\ pc = "swept" /\ ~ progressed /\ remaining # <<>>
    /\ ordered' = Append(ordered, Breaker)
    /\ remaining' = Without(remaining, Breaker)
    /\ progressed' = TRUE
    /\ UNCHANGED <<parents, refs, chosen, configs, children, pending, sweep, pc>>

Finish ==
    /\ pc = "swept" /\ remaining = <<>> /\ pc' = "done"
    /\ UNCHANGED <<parents, refs, chosen, configs, children, pending, remaining, sweep, progressed, ordered>>

Init ==
    /\ parents \in Parents /\ refs \in References /\ chosen \in Requests
    /\ configs = <<>> /\ children = [m \in All |-> {}] /\ pending = <<>> /\ remaining = <<>>
    /\ sweep = <<>> /\ progressed = FALSE /\ ordered = <<>> /\ pc = "choose"

Next == Choose \/ AddParents \/ StartSweep \/ Visit \/ EndSweep \/ BreakCycle \/ Finish
Spec == Init /\ [][Next]_vars

-----------------------------------------------------------------------------
(* Properties. *)

PlaceOf(m) == CHOOSE i \in DOMAIN ordered : ordered[i] = m
Reach(m, n) == LET step(s) == s \cup UNION {Deps(x) : x \in s} IN n \in step(step(step(Deps(m))))

\* In every plan a model comes after all of its ancestors, whatever cycles the
\* foreign keys make: a child's row is never loaded before its parent's.
AncestorsFirst ==
    \A m \in Set(ordered) : \A a \in Ancestors(m) \cap Set(configs) :
        a \in Set(ordered) /\ PlaceOf(a) < PlaceOf(m)

\* A model that lies on no cycle, nor refers to one, comes after all it refers to.
ReferredFirst ==
    pc = "done" =>
        \A m \in Set(ordered) :
            (\A x \in Deps(m) \cup {m} : ~ Reach(x, x) /\ \A y \in All : Reach(m, y) => ~ Reach(y, y)) =>
                \A d \in Deps(m) : PlaceOf(d) < PlaceOf(m)

\* The plan holds each chosen model once and every ancestor of each, and a
\* parent that came in for its children knows every one of them.
PlanIsClosed ==
    pc = "done" =>
        /\ Set(ordered) = Set(configs)
        /\ (IF chosen = <<>> THEN Set(Discovered) ELSE Set(chosen)) \subseteq Set(ordered)
        /\ \A m \in Set(ordered) : parents[m] \subseteq Set(ordered)
        /\ \A m \in Set(ordered) : "own" \notin children[m] =>
               children[m] = {c \in Set(ordered) : m \in parents[c]}

=============================================================================
