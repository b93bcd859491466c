------------------------------- MODULE MCFsm -------------------------------
(* Instances of Fsm for TLC: programs.  The names of the tree are those of  *)
(* tests/fsm/fsm_dealloc_test.c.                                            *)
EXTENDS Fsm

CONSTANTS root, branch, twig, other

(* A chain of three, and an instance of its own.                            *)
Chain == [i \in {root, branch, twig, other} |->
            CASE i = branch -> root [] i = twig -> branch [] OTHER -> None]
(* A parent with two children.                                              *)
Siblings == [i \in {root, branch, twig} |-> IF i \in {branch, twig} THEN root ELSE None]
(* A parent and a child.                                                    *)
Pair == [i \in {root, branch} |-> IF i = branch THEN root ELSE None]

(* What main calls, and what the callbacks cbs do.                          *)
From(main, kinds, cbs) ==
    [cb \in Callbacks |-> IF cb = "main" THEN {"alloc"} \cup main
                          ELSE IF cb \in cbs THEN kinds ELSE {}]

(* With osmo_fsm_term_safely(true).                                         *)
Safe(tree, behaviour, n) ==
    [safely |-> TRUE, dealloc |-> FALSE, shape |-> tree, events |-> {0},
     calls |-> behaviour, bound |-> n]

(* The callbacks cbs may terminate anything.                                *)
Cascades(cbs) == From({"term", "dispatch"}, {"term", "dispatch"}, cbs)
InCascade == Callbacks \ {"onleave"}
Timeouts ==
    From({"term", "state_chg"}, {"term"}, {"pre_term", "cleanup", "timer_cb", "onenter"})
(* Everything that is done with trees, with callbacks that terminate none;  *)
(* pre_term() leaves the parent, or allocates a child of the dying one.     *)
Changes ==
    [From(CallKinds \ {"state_chg"}, {}, {}) EXCEPT !["pre_term"] = {"unlink_parent", "alloc"},
                                                    !["cleanup"] = {"dispatch"}]

(* Terminations from everywhere, in three settings; timeouts; changes.      *)
Sound ==
    {Safe(Chain, Cascades(InCascade), 3),
     Safe(Siblings, Cascades(InCascade \ {"pre_term"}), 3),
     [Safe(Chain, Cascades(InCascade), 3) EXCEPT !.safely = FALSE, !.dealloc = TRUE],
     Safe(Pair, Timeouts, 3),
     [Safe(Siblings, Changes, 2) EXCEPT !.events = {0, 1}]}

(* Siblings that terminate their parent from pre_term().                    *)
Stuck == {Safe(Siblings, Cascades(InCascade), 3)}

=============================================================================
