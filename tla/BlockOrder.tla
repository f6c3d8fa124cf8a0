----------------------------- MODULE BlockOrder -----------------------------
(***************************************************************************)
(* The order in which the blocks of a function are laid out                *)
(* (IRFunction::reorder_blocks_rpo, ir/ssa_ir.cpp).  A block is known by   *)
(* its place; an end jumps to targets, each with a block, of which a       *)
(* branch has the `then` first.  Handlers and cleanup records name blocks, *)
(* too: a record holds from the start of one to the end of another, or     *)
(* until `before` that one.  Whatever else they have is kept.              *)
(***************************************************************************)
EXTENDS Naturals, Sequences, SequencesExt

Blocks(f) == DOMAIN f.blocks

\* Successors that were not pushed before, in the order they are pushed: the `then` target last.
Pushed(f, b, visited) ==
    LET to == f.blocks[b].end.to
        all == [k \in DOMAIN to |-> to[Len(to) + 1 - k].block]
    IN  SelectSeq(IF Len(all) = 2 /\ all[1] = all[2] THEN <<all[1]>> ELSE all, LAMBDA x : x \notin visited)

Visit(f, walk) ==
    LET b   == Last(walk.stack)
        new == Pushed(f, b, walk.visited)
    IN  IF new = <<>> THEN [walk EXCEPT !.stack = Front(@), !.done = Append(@, b)]
        ELSE [walk EXCEPT !.stack = @ \o new, !.visited = @ \cup ToSet(new)]

\* (A quantified variable where LET would do: TLC evaluates it once.)
RECURSIVE PostOrder(_, _)
PostOrder(f, walk) ==
    IF walk.stack = <<>> THEN walk.done
    ELSE CHOOSE done \in {PostOrder(f, next) : next \in {Visit(f, walk)}} : TRUE

Order(f) ==
    LET roots == <<1>> \o [h \in DOMAIN f.handlers |-> f.handlers[h].handler]
    IN  Reverse(PostOrder(f, [stack |-> roots, visited |-> ToSet(roots), done |-> <<>>]))

Dropped(f) == Blocks(f) \ ToSet(Order(f))

\* A block that is dropped becomes the first in whatever still names it.  The
\* end of a cleanup record becomes the end of the last block instead.
LaidOut(f, order) ==
    LET new(b) == IF b \in ToSet(order) THEN CHOOSE k \in DOMAIN order : order[k] = b ELSE 1
        moved(end) == [end EXCEPT !.to = [k \in DOMAIN @ |-> [@[k] EXCEPT !.block = new(@)]]]
    IN  [f EXCEPT
          !.blocks   = [k \in DOMAIN order |-> [f.blocks[order[k]] EXCEPT !.end = moved(@)]],
          !.handlers = [h \in DOMAIN @ |-> [@[h] EXCEPT !.body = {new(b) : b \in @}, !.handler = new(@)]],
          !.records  = [r \in DOMAIN @ |->
                           LET stays == @[r].upto \in ToSet(order)
                           IN  [@[r] EXCEPT !.from   = new(@),
                                            !.upto   = IF stays THEN new(@) ELSE Len(order),
                                            !.before = stays /\ @]]]

ReorderBlocksRpo(f) == CHOOSE g \in {LaidOut(f, order) : order \in {Order(f)}} : TRUE
=============================================================================
