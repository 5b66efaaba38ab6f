------------------------------ MODULE PkgSort ------------------------------
(***************************************************************************)
(* package/app/pkgSort: the packages that a package, or every package of a *)
(* list, depends on, each behind its own dependencies.  The recursion of   *)
(* up_active_list is a stack of frames; its lists are passed by value, so  *)
(* a frame's un_list holds its ancestors and the dependencies it has       *)
(* already gone into.                                                      *)
(***************************************************************************)
EXTENDS Integers, FiniteSets, Sequences, SequencesExt

CONSTANTS
  Pkgs,      \* packages
  Depends,   \* the dependencies they may have: functions from Pkgs to sequences
  Lists      \* what may be asked for: sequences of packages

PkgAssumption ==
  IsFiniteSet(Pkgs) /\ Depends \subseteq [Pkgs -> Seq(Pkgs)] /\ Lists \subseteq Seq(Pkgs)

VARIABLES
  getPkgDeps,   \* what make -C pkg depend answers
  asked,        \* history: the packages asked for
  pkg_list,     \* those of them still to look at
  stack,        \* the calls of up_active_list
  active_list

given == <<getPkgDeps, asked>>
vars  == <<given, pkg_list, stack, active_list>>

Active == ToSet(active_list)

Init ==
  /\ getPkgDeps \in Depends /\ asked \in Lists /\ pkg_list = asked
  /\ stack = <<>> /\ active_list = <<>>

\* A call of up_active_list: its package, the next dependency, and un_list.
Call(pkg, un) == [pkg |-> pkg, next |-> 1, un_list |-> un]

top == Last(stack)

\* What getPkgDeps reads for the package of the innermost call, and the entry its loop is at.
deps == getPkgDeps[top.pkg]
i    == deps[top.next]

\* main goes on to the next package: get_pkg_active_list.
get_pkg_active_list ==
  /\ stack = <<>> /\ pkg_list # <<>>
  /\ stack' = <<Call(Head(pkg_list), {Head(pkg_list)})>>
  /\ pkg_list' = Tail(pkg_list)
  /\ UNCHANGED <<given, active_list>>

More == stack # <<>> /\ top.next <= Len(deps)

\* Mutant: the loop does not go on.
SkipStays == More /\ (i \in top.un_list \/ i \in Active) /\ UNCHANGED vars

\* Mutant: the loop is left where it should go on.
SkipAll ==
  /\ More /\ (i \in top.un_list \/ i \in Active)
  /\ stack' = [stack EXCEPT ![Len(stack)].next = Len(deps) + 1]
  /\ UNCHANGED <<given, pkg_list, active_list>>

\* A dependency that is under way further up, or has appeared already.
Skip ==
  /\ More /\ (i \in top.un_list \/ i \in Active)
  /\ stack' = [stack EXCEPT ![Len(stack)].next = @ + 1]
  /\ UNCHANGED <<given, pkg_list, active_list>>

Descend ==
  /\ More /\ i \notin top.un_list /\ i \notin Active
  /\ LET un == top.un_list \cup {i}
     IN stack' = Append([stack EXCEPT ![Len(stack)].next = @ + 1, ![Len(stack)].un_list = un], Call(i, un))
  /\ UNCHANGED <<given, pkg_list, active_list>>

\* The package itself, once.
Return ==
  /\ stack # <<>> /\ ~More
  /\ active_list' = IF top.pkg \in Active THEN active_list ELSE Append(active_list, top.pkg)
  /\ stack' = Front(stack)
  /\ UNCHANGED <<given, pkg_list>>

up_active_list == Skip \/ Descend \/ Return

Next == get_pkg_active_list \/ up_active_list

Spec == Init /\ [][Next]_vars /\ WF_vars(Next)
-----------------------------------------------------------------------------
Needs(p, q) == \E k \in DOMAIN getPkgDeps[p] : getPkgDeps[p][k] = q

\* p depends on q over some packages.
Reaches(p, q) ==
  \E n \in 2 .. Cardinality(Pkgs) + 1 : \E path \in [1 .. n -> Pkgs] :
    path[1] = p /\ path[n] = q /\ \A k \in 1 .. n - 1 : Needs(path[k], path[k + 1])

\* Every package comes once, and behind each of its dependencies that does not
\* itself depend on it.
DependenciesFirst ==
  \A k \in DOMAIN active_list :
    /\ \A l \in DOMAIN active_list : active_list[l] = active_list[k] => l = k
    /\ \A q \in Pkgs :
         Needs(active_list[k], q) /\ ~Reaches(q, active_list[k]) =>
           \E l \in 1 .. k - 1 : active_list[l] = q

Done == stack = <<>> /\ pkg_list = <<>>

\* What was asked for is listed, and with a package each of its dependencies.
AllListed ==
  /\ ToSet(asked) \subseteq Active
  /\ \A p \in Active, q \in Pkgs : Needs(p, q) => q \in Active

\* The order is right at any time, and at the end nothing is missing, cycles or not.
ListedInOrder == DependenciesFirst /\ (Done => AllListed)

\* The search ends, cycles or not.
SearchEnds == <>[]Done
=============================================================================
