----------------------------- MODULE BlockRules -----------------------------
(***************************************************************************)
(* The arithmetic of block.cpp, big_number.cpp's compact form and          *)
(* transaction.cpp's merkle tree, as functions.  Numbers keep the shape of *)
(* the code's; the base of a digit, the length of the dense part of a      *)
(* locator and the reward are parameters so that their boundaries come     *)
(* close.                                                                  *)
(***************************************************************************)
EXTENDS Integers, Sequences, FiniteSets

CONSTANTS
    Dense,      \* the locator takes every block this deep (10)
    Radix,      \* values of a byte (256): even
    Subsidy,    \* coin_price(block_reward)
    Halving     \* reward_interval

ASSUME RulesAssumption ==
    /\ Dense \in Nat /\ Halving \in Nat \ {0} /\ Subsidy \in Nat
    /\ Radix \in { 2 * n : n \in 1..128 }

-----------------------------------------------------------------------------
\* block_locator_indexes: the loop over i, step and start.

\* The step grows by one.
LocatorStepFault(step, start) == IF start >= Dense THEN step + 1 ELSE step
LocatorStep(step, start) == IF start >= Dense THEN 2 * step ELSE step

LocatorWalk[i \in Int, step \in Nat, start \in Nat] ==
    IF i <= 0
    THEN <<0>>
    ELSE LET next == LocatorStep(step, start)
         IN  <<i>> \o LocatorWalk[i - next, next, start + 1]

LocatorIndexes(top) == LocatorWalk[top, 1, 0]

\* block_value: one shift to the right per halving (by fewer than 64 bits, which
\* is where the shift of the code is defined).
BlockReward(depth) == Subsidy \div 2 ^ (depth \div Halving)

-----------------------------------------------------------------------------
\* big_number: the length-prefixed form of OpenSSL (mpi).  The top bit of the
\* first byte is the sign, so a number whose first byte has it set gets a
\* leading zero byte.

\* The bytes of a natural number, most significant first, without the sign.
Digits[n \in Nat] ==
    IF n = 0 THEN <<>> ELSE Append(Digits[n \div Radix], n % Radix)

Signed(digits) == digits # <<>> /\ 2 * Head(digits) >= Radix

BnToMpi(n) == IF Signed(Digits[n]) THEN <<0>> \o Digits[n] ELSE Digits[n]

Value(digits) ==
    LET upTo[i \in 0..Len(digits)] ==
            IF i = 0 THEN 0 ELSE upTo[i - 1] * Radix + digits[i]
    IN  upTo[Len(digits)]

MpiToBn(digits) ==
    IF Signed(digits)
    THEN -Value([digits EXCEPT ![1] = @ - Radix \div 2])
    ELSE Value(digits)

\* compact(): the number of bytes and the first three of them.
Mantissa(digits) ==
    [i \in 1..3 |-> IF i <= Len(digits) THEN digits[i] ELSE 0]

Compact(n) ==
    [size |-> Len(BnToMpi(n)), mantissa |-> Mantissa(BnToMpi(n))]

\* set_compact: the bytes that do not fit into size are dropped, the missing
\* ones are zero.
SetCompact(c) ==
    MpiToBn([i \in 1..c.size |-> IF i <= 3 THEN c.mantissa[i] ELSE 0])

-----------------------------------------------------------------------------
\* build_merkle_tree: a hash is its preimage, the pair of two hashes, and a
\* transaction hash is <<t>> and the null hash <<0>>.

\* An odd level is filled up with its last hash.
PairUp(level) ==
    LET even == IF Len(level) % 2 = 0 THEN level
                ELSE Append(level, level[Len(level)])
    IN  [i \in 1..(Len(even) \div 2) |-> <<even[2 * i - 1], even[2 * i]>>]

MerkleRoot(level) ==
    LET climb[k \in Nat] == IF k = 0 THEN level
                            ELSE IF Len(climb[k - 1]) <= 1 THEN climb[k - 1]
                            ELSE PairUp(climb[k - 1])
        top == climb[Len(level)]
    IN  IF level = <<>> THEN <<0>> ELSE top[1]

GenerateMerkleRoot(txs) == MerkleRoot([i \in DOMAIN txs |-> <<txs[i]>>])

-----------------------------------------------------------------------------
\* What the functions promise, for inputs a run enumerates.

\* A block locator names the top block, falls strictly, ends at the genesis
\* block, has no gap among its first entries and at most doubling gaps after:
\* a peer on any fork finds an ancestor at most twice as far back as the fork.
\* It has few entries however long the chain is.
LocatorShape(top) ==
    LET indexes == LocatorIndexes(top)
        gap == [k \in 1..(Len(indexes) - 1) |-> indexes[k] - indexes[k + 1]]
    IN  /\ indexes[1] = top /\ indexes[Len(indexes)] = 0
        /\ Len(indexes) > Dense + 2 => 2 ^ (Len(indexes) - Dense - 2) <= top
        /\ \A k \in 1..(Len(indexes) - 1) :
            /\ gap[k] \in 1..(IF k <= Dense THEN 1 ELSE 2 ^ (k - Dense))
            /\ \A fork \in indexes[k + 1]..(indexes[k] - 1) :
                    top - indexes[k + 1] <= 2 * (top - fork) + Dense

\* The rewards never grow, and all of them together never exceed the supply that
\* max_money() allows: twice what the first halving period pays.
SupplyBounded(depth) ==
    LET upTo[d \in 0..depth] ==
            BlockReward(d) + IF d = 0 THEN 0 ELSE upTo[d - 1]
    IN  /\ BlockReward(depth + 1) <= BlockReward(depth)
        /\ upTo[depth] <= 2 * Subsidy * Halving

\* Writing a target in compact form and reading it back gives a target that is
\* not larger, has the same compact form and loses less than one unit of the
\* third byte; it never comes back negative.
CompactSound(n) ==
    LET back == SetCompact(Compact(n))
        size == Compact(n).size
    IN  /\ back \in 0..n
        /\ Compact(back) = Compact(n)
        /\ n - back < Radix ^ (IF size > 3 THEN size - 3 ELSE 0)

\* A larger number never has a smaller compact form: comparing targets before
\* or after the conversion is the same up to rounding.
CompactMonotone(n) == SetCompact(Compact(n)) <= SetCompact(Compact(n + 1))

\* The merkle root of a block binds its list of transactions, given that
\* check_block accepts no transaction twice.
MerkleBinds(list, other) ==
    GenerateMerkleRoot(list) = GenerateMerkleRoot(other) => list = other
=============================================================================
