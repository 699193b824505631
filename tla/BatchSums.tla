------------------------------ MODULE BatchSums ------------------------------
(***************************************************************************)
(* What CORR promises, without pipelines, read-out states or pending       *)
(* writes: an item is added to the sums of the open batch, and the item    *)
(* that closes the batch puts all F sums of it, in order, on the output,   *)
(* the final one flagged last, and leaves the next batch with zeroes.      *)
(***************************************************************************)
EXTENDS CorrParameters, Sequences

VARIABLES
    in,         \* items not yet accumulated, with their last flag
    open,       \* the F sums of the open batch
    out         \* sums of closed batches not yet collected

bvars == <<in, open, out>>

NoSums == [i \in 0 .. F - 1 |-> 0]

(* The sums of a batch after one more item. *)
Added(sums, x) ==
    [i \in 0 .. F - 1 |->
        (sums[i] + IF i < N THEN x[i]
                   ELSE IF i < 2 * N THEN Square(x, i - N)
                   ELSE Product(x, i - 2 * N)) % W]

(* The flits that carry sums from the first one to the F-th. *)
SumFlits(sums) == [j \in 1 .. F |-> [last |-> j = F, val |-> sums[j - 1]]]

BInit == in = << >> /\ open = NoSums /\ out = << >>

BOffer(f) == /\ in' = Append(in, f)
             /\ UNCHANGED <<open, out>>

(* An item inside a batch. *)
BAdd == /\ in # << >> /\ ~Head(in).last
        /\ in' = Tail(in)
        /\ open' = Added(open, Head(in).val)
        /\ out' = out

(* The item that closes its batch. *)
BClose == /\ in # << >> /\ Head(in).last
          /\ in' = Tail(in)
          /\ open' = NoSums
          /\ out' = out \o SumFlits(Added(open, Head(in).val))

BCollect == /\ out # << >>
            /\ out' = Tail(out)
            /\ UNCHANGED <<in, open>>

BNext == BAdd \/ BClose \/ BCollect
         \/ \E f \in [last : BOOLEAN, val : Items] : BOffer(f)

BSpec == BInit /\ [][BNext]_bvars
=============================================================================
