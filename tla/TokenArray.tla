----------------------------- MODULE TokenArray -----------------------------
(***************************************************************************)
(* lexer.c: the array of token pointers that parseTokens grows while it    *)
(* reads, and parsedTokensCleanup empties.  What the tokens are does not   *)
(* matter here; sizes are in bytes, as in the code, which counts the array *)
(* in units of sizeof(Token) although it stores a Token* per token.        *)
(* Failing malloc and realloc are left out.                                *)
(***************************************************************************)
EXTENDS Integers, Sequences

CONSTANTS
  TokenSize,   \* sizeof(Token)
  PtrSize,     \* sizeof(Token*)
  MaxTokens    \* bound: tokens before the end of the input

\* struct SToken holds an enumeration and a pointer, aligned to the pointer.
Sizes == PtrSize \in Nat \ {0} /\ TokenSize \in Nat /\ TokenSize >= 2 * PtrSize
ASSUME SizeAssumption == Sizes
ASSUME BoundAssumption == MaxTokens \in Nat

VARIABLES
  stage,       \* "reading" in parseTokens, then "parsed", then "cleaned"
  allocated,   \* bytes of the block tokensArray points to
  size,        \* the variable of that name
  stored,      \* the pointers stored so far: "live", or "NULL" once cleaned
  length,      \* TokensArray.length, 0 until parseTokens returns
  next         \* tokens parsedTokensCleanup has passed

arrayVars == <<stage, allocated, size, stored, length, next>>

ArrayInit ==
  /\ stage = "reading"
  /\ allocated = TokenSize /\ size = TokenSize
  /\ stored = << >>
  /\ length = 0 /\ next = 0

(***************************************************************************)
(* The body of the loop: the token is stored before the block grows, and   *)
(* the block grows to the old size.                                        *)
(***************************************************************************)
GrowByPointers ==                       \* variant: realloc for the pointers alone
  /\ allocated' = Len(stored') * PtrSize
  /\ size' = size + TokenSize

GrowMore ==                             \* variant: one Token too many each time
  /\ allocated' = size + TokenSize
  /\ size' = size + 2 * TokenSize

Grow ==
  /\ allocated' = size
  /\ size' = size + TokenSize

Store ==
  /\ stage = "reading"
  /\ Len(stored) < MaxTokens
  /\ stored' = Append(stored, "live")
  /\ Grow
  /\ UNCHANGED <<stage, length, next>>

ReturnedLength == size \div TokenSize

(* TOKEN_EOF is stored too, and ends the loop before the block grows. *)
StoreEnd ==
  /\ stage = "reading"
  /\ stored' = Append(stored, "live")
  /\ length' = ReturnedLength
  /\ stage' = "parsed"
  /\ UNCHANGED <<allocated, size, next>>

(* parsedTokensCleanup: one pass of its loop, then its return. *)
CleanupStopsEarly == next < length - 1   \* variant: the end token is not a token
CleanupGoesOn == next < length

CleanToken ==
  /\ stage = "parsed" /\ CleanupGoesOn
  /\ stored' = [stored EXCEPT ![next + 1] = "NULL"]
  /\ next' = next + 1
  /\ UNCHANGED <<stage, allocated, size, length>>

CleanupEnd ==
  /\ stage = "parsed" /\ ~CleanupGoesOn
  /\ stage' = "cleaned"
  /\ UNCHANGED <<allocated, size, stored, length, next>>

ArrayNext == Store \/ StoreEnd \/ CleanToken \/ CleanupEnd

ArraySpec == ArrayInit /\ [][ArrayNext]_arrayVars

-----------------------------------------------------------------------------
(* Properties *)

\* The variables hold values of their types.
ArrayTypeOK ==
  /\ stage \in {"reading", "parsed", "cleaned"}
  /\ allocated \in Nat /\ size \in Nat /\ length \in Nat /\ next \in Nat
  /\ stored \in Seq({"live", "NULL"})

\* The next pointer, which parseTokens stores before it grows the block, always
\* fits: growing by a size that is one step old, from a first block that holds
\* one Token, is made up for by counting in Tokens.
StoresFit ==
  stage = "reading" => (Len(stored) + 1) * PtrSize <= allocated

\* The length parseTokens derives from the byte count is the number of tokens
\* stored, the end token included: cleanup and the parser read no slot beyond
\* the last token and miss none.
LengthIsCount ==
  stage # "reading" => length = Len(stored)

\* After cleanup every token that the lexer created is freed.
AllFreed ==
  stage = "cleaned" => \A k \in 1 .. Len(stored) : stored[k] = "NULL"

=============================================================================
