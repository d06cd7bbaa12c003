------------------------------- MODULE Locate -------------------------------
(***************************************************************************)
(* locate() of cpp/gapped_array.h, "the one place a prediction becomes an  *)
(* answer", with reaches() and gallop(): from any slot of any sorted array *)
(* with gaps to the first real key that is not less than the target.  A    *)
(* step is one turn of one of its loops.  Slots are numbered from 0, as in *)
(* the code.                                                               *)
(***************************************************************************)
EXTENDS Integers

CONSTANTS
    Key,          \* the keys in use
    EMPTY_SLOT,   \* INT64_MAX: the key of a gap
    Limits,       \* the values walk_limit may have
    MaxLen        \* bound of the model: slots

ASSUME LocateAssumption ==
    /\ Key \subseteq Int
    /\ EMPTY_SLOT \in Int /\ \A k \in Key : k < EMPTY_SLOT
    /\ Limits \subseteq Nat \ {0}
    /\ MaxLen \in Nat

VARIABLES
    data,         \* data_
    n,            \* data_.size()
    target,       \* the key to look up
    walk_limit,   \* "the model's own error bound", at least 1
    i,            \* locate's slot, and its answer
    stop,         \* left_stop or right_stop
    lo, hi,       \* gallop's bracket
    step,         \* how far it jumps next
    phase         \* the loop it is in

input == <<data, n, target, walk_limit>>
vars  == <<data, n, target, walk_limit, i, stop, lo, hi, step, phase>>

Slots == 0..(n - 1)

SlotsSorted(d, m) ==
    \A j, k \in 0..(m - 1) : (j < k /\ d[j] # EMPTY_SLOT /\ d[k] # EMPTY_SLOT) => d[j] < d[k]

\* Every real key of d before slot j is less than t.
AllBelow(d, m, t, j) == \A k \in 0..(m - 1) : (k < j /\ d[k] # EMPTY_SLOT) => d[k] < t

\* The first real key of d at or after slot j, if there is one, is at least t.
NextReaches(d, m, t, j) == \A k \in 0..(m - 1) :
    (k >= j /\ d[k] # EMPTY_SLOT /\ \A e \in j..(k - 1) : d[e] = EMPTY_SLOT) => d[k] >= t

LeftBelow(j) == AllBelow(data, n, target, j)

\* reaches(): "Is the first real key at or after slot j at least target?"
Reaches(j) == NextReaches(data, n, target, j)

LocateInit ==
    /\ n \in 0..MaxLen
    /\ data \in [Slots -> Key \cup {EMPTY_SLOT}] /\ SlotsSorted(data, n)
    /\ target \in Key \cup {EMPTY_SLOT}
    /\ walk_limit \in Limits
    /\ i \in 0..n    \* the prediction, clamped
    /\ stop = IF i > walk_limit THEN i - walk_limit ELSE 0
    /\ lo = 0 /\ hi = 0 /\ step = 0
    /\ phase = "left"

-----------------------------------------------------------------------------
(* The walk.                                                               *)

\* "step left while the slot to the left is a gap or holds a key >= target".
WalkLeft ==
    /\ phase = "left" /\ i > stop /\ data[i - 1] >= target
    /\ i' = i - 1
    /\ UNCHANGED <<input, stop, lo, hi, step, phase>>

\* The slot to the left is below the target, or there is none.
TurnRight ==
    /\ phase = "left"
    /\ i > 0 => data[i - 1] < target
    /\ stop' = IF i + walk_limit < n THEN i + walk_limit ELSE n
    /\ phase' = "right"
    /\ UNCHANGED <<input, i, lo, hi, step>>

\* Out of steps, and the answer is still to the left.
FarLeft ==
    /\ phase = "left" /\ i = stop /\ i > 0 /\ data[i - 1] >= target
    /\ phase' = "gallop"
    /\ UNCHANGED <<input, i, stop, lo, hi, step>>

\* "step right past gaps and keys < target".
WalkRight ==
    /\ phase = "right" /\ i < stop /\ (data[i] = EMPTY_SLOT \/ data[i] < target)
    /\ i' = i + 1
    /\ UNCHANGED <<input, stop, lo, hi, step, phase>>

Found ==
    /\ phase = "right"
    /\ i < n => data[i] # EMPTY_SLOT /\ data[i] >= target
    /\ phase' = "done"
    /\ UNCHANGED <<input, i, stop, lo, hi, step>>

FarRight ==
    /\ phase = "right" /\ i = stop /\ i < n /\ (data[i] = EMPTY_SLOT \/ data[i] < target)
    /\ phase' = "gallop"
    /\ UNCHANGED <<input, i, stop, lo, hi, step>>

-----------------------------------------------------------------------------
(* gallop().                                                               *)

\* Which way to jump.
Gallop ==
    /\ phase = "gallop"
    /\ IF Reaches(i) THEN phase' = "down" /\ hi' = i /\ UNCHANGED lo
                     ELSE phase' = "up"   /\ lo' = i /\ UNCHANGED hi
    /\ step' = 1
    /\ UNCHANGED <<input, i, stop>>

\* A jump to the left: past the start of the array, to a slot before the flip,
\* or to one after it.
JumpDown ==
    /\ phase = "down"
    /\ \/ /\ hi - step < 0
          /\ lo' = -1 /\ phase' = "bisect" /\ UNCHANGED <<hi, step>>
       \/ /\ hi - step >= 0 /\ ~ Reaches(hi - step)
          /\ lo' = hi - step /\ phase' = "bisect" /\ UNCHANGED <<hi, step>>
       \/ /\ hi - step >= 0 /\ Reaches(hi - step)
          /\ lo' = hi - step /\ hi' = hi - step /\ step' = 2 * step /\ UNCHANGED phase
    /\ UNCHANGED <<input, i, stop>>

JumpUp ==
    /\ phase = "up"
    /\ \/ /\ lo + step >= n
          /\ hi' = n /\ phase' = "bisect" /\ UNCHANGED <<lo, step>>
       \/ /\ lo + step < n /\ Reaches(lo + step)
          /\ hi' = lo + step /\ phase' = "bisect" /\ UNCHANGED <<lo, step>>
       \/ /\ lo + step < n /\ ~ Reaches(lo + step)
          /\ hi' = lo + step /\ lo' = lo + step /\ step' = 2 * step /\ UNCHANGED phase
    /\ UNCHANGED <<input, i, stop>>

\* Broken: the slot after the middle is taken not to reach the target either.
BisectPastMid ==
    /\ phase = "bisect" /\ hi - lo > 1
    /\ LET mid == lo + (hi - lo) \div 2
       IN  IF Reaches(mid) THEN hi' = mid /\ UNCHANGED lo ELSE lo' = mid + 1 /\ UNCHANGED hi
    /\ UNCHANGED <<input, i, stop, step, phase>>

\* gallop's binary search for the flip.
Bisect ==
    /\ phase = "bisect" /\ hi - lo > 1
    /\ LET mid == lo + (hi - lo) \div 2
       IN  IF Reaches(mid) THEN hi' = mid /\ UNCHANGED lo ELSE lo' = mid /\ UNCHANGED hi
    /\ UNCHANGED <<input, i, stop, step, phase>>

\* Broken: the search goes on until nothing is left of the bracket.
BracketedWhenEmpty ==
    /\ phase = "bisect" /\ hi - lo <= 0
    /\ phase' = "skip"
    /\ UNCHANGED <<input, i, stop, lo, hi, step>>

Bracketed ==
    /\ phase = "bisect" /\ hi - lo <= 1
    /\ phase' = "skip"
    /\ UNCHANGED <<input, i, stop, lo, hi, step>>

SkipGap ==
    /\ phase = "skip" /\ hi < n /\ data[hi] = EMPTY_SLOT
    /\ hi' = hi + 1
    /\ UNCHANGED <<input, i, stop, lo, step, phase>>

\* Broken: gaps at the end of the bracket are not skipped.
LandedAnywhere ==
    /\ phase = "skip"
    /\ i' = hi /\ phase' = "done"
    /\ UNCHANGED <<input, stop, lo, hi, step>>

Landed ==
    /\ phase = "skip" /\ (hi < n => data[hi] # EMPTY_SLOT)
    /\ i' = hi /\ phase' = "done"
    /\ UNCHANGED <<input, stop, lo, hi, step>>

LocateNext ==
    \/ WalkLeft \/ TurnRight \/ FarLeft
    \/ WalkRight \/ Found \/ FarRight
    \/ Gallop \/ JumpDown \/ JumpUp \/ Bisect \/ Bracketed \/ SkipGap \/ Landed

\* locate() is one call of one thread: it goes on until it returns.
LocateSpec == LocateInit /\ [][LocateNext]_vars /\ WF_vars(LocateNext)

-----------------------------------------------------------------------------

LocateTypeOK ==
    /\ n \in Nat /\ data \in [Slots -> Key \cup {EMPTY_SLOT}]
    /\ target \in Key \cup {EMPTY_SLOT} /\ walk_limit \in Nat \ {0}
    /\ i \in 0..n /\ stop \in 0..n
    /\ lo \in -1..n /\ hi \in 0..n /\ step \in Nat
    /\ phase \in {"left", "right", "gallop", "down", "up", "bisect", "skip", "done"}

\* "the first real key that step 2 reaches is the true lower bound.  That holds
\* whatever the model predicted".
IsLowerBound(j) ==
    /\ LeftBelow(j)
    /\ j < n => data[j] # EMPTY_SLOT /\ data[j] >= target

\* "locate() is what makes the answer correct": what it returns is the lower bound.
LowerBound == phase = "done" => IsLowerBound(i)

\* The walk and the gallop come to an end from every slot of every array.
Terminates == <>(phase = "done")

\* "reaches(lo) is false (lo == -1 counts as false); reaches(hi) is true": the
\* flip lies in the bracket at every jump and every halving, and no real key
\* before the slot that is skipped to is a possible answer.
BracketHolds ==
    /\ phase = "right" => LeftBelow(i)
    /\ phase = "down" => step >= 1 /\ Reaches(hi)
    /\ phase = "up" => step >= 1 /\ lo < n /\ lo >= 0 /\ ~ Reaches(lo)
    /\ phase = "bisect" => lo < hi /\ Reaches(hi) /\ (lo = -1 \/ ~ Reaches(lo))
    /\ phase = "skip" => LeftBelow(hi) /\ Reaches(hi)

=============================================================================
