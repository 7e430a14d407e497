------------------------------- MODULE History -------------------------------
(***************************************************************************)
(* truncate_history (core/utils/token_counter.py), which cuts the          *)
(* conversation a question carries to a budget of tokens, over the turns   *)
(* of one chat.  A message is its number of tokens.                        *)
(***************************************************************************)
EXTENDS Integers, Sequences, FiniteSets, FiniteSetsExt

CONSTANTS
    Budget,   \* _HISTORY_TOKEN_BUDGET, or tenths of it
    Tokens,   \* the sizes a message may have
    MaxTurns  \* bound: turns of the chat

ASSUME BudgetAssumption == Budget \in Nat /\ Tokens \subseteq Nat /\ MaxTurns \in Nat

VARIABLES
    history,   \* conversation_history, the tokens of each message
    kept,      \* truncated_history: the positions of the messages included
    truncated  \* context_truncated

vars == <<history, kept, truncated>>

TypeOK ==
    /\ history \in Seq(Tokens) /\ Len(history) % 2 = 0
    /\ kept \subseteq DOMAIN history
    /\ truncated \in BOOLEAN

-----------------------------------------------------------------------------
\* truncate_history.

\* The tokens of the messages lo to hi.
Total(h, lo, hi) ==
    LET sum[n \in lo - 1..hi] == IF n = lo - 1 THEN 0 ELSE sum[n - 1] + h[n]
    IN sum[hi]

\* Variant: the scan goes on past a message that does not fit.
TakeAnyway(scan, m) ==
    IF m <= scan.left
    THEN [scan EXCEPT !.left = @ - m, !.fits = @ + 1]
    ELSE scan

\* One message of the scan, which ends at the first that does not fit.
Take(scan, m) ==
    IF ~scan.stopped /\ m <= scan.left
    THEN [scan EXCEPT !.left = @ - m, !.fits = @ + 1]
    ELSE [scan EXCEPT !.stopped = TRUE]

\* The scan from the newest message back: after its first n messages, and at its end.
Scanned(h) ==
    LET scan[n \in 0..Len(h)] ==
            IF n = 0 THEN [left |-> Budget, fits |-> 0, stopped |-> FALSE]
            ELSE Take(scan[n - 1], h[Len(h) - n + 1])
    IN scan[Len(h)]

Latest(h) == (Len(h) - Scanned(h).fits + 1)..Len(h)

FirstTurn(h) == 1..Min({2, Len(h)})

\* _FIRST_TURN_PROTECTION_RATIO is 0.3.
ProtectFirst(h) == 10 * Total(h, 1, Min({2, Len(h)})) <= 3 * Budget

Included(h) == Latest(h) \cup IF ProtectFirst(h) THEN FirstTurn(h) ELSE {}

-----------------------------------------------------------------------------
\* The turns.

Init ==
    /\ history = <<>>
    /\ kept = {}
    /\ truncated = FALSE

\* A question carries the conversation so far, one turn longer than the last time.
Ask ==
    /\ Len(history) < 2 * MaxTurns
    /\ \E q, a \in Tokens : history' = history \o <<q, a>>
    /\ kept' = Included(history')
    /\ truncated' = (Cardinality(kept') < Len(history'))

Next == Ask

Spec == Init /\ [][Next]_vars

-----------------------------------------------------------------------------
\* Properties.

\* The tokens from message i on.
End(i) == Total(history, i, Len(history))

\* What is kept is the longest end of the conversation that fits, and the first
\* turn where it is small; context_truncated tells whether anything is missing.
KeepsLongestEnd ==
    /\ \A i \in DOMAIN history :
           i \in kept <=> \/ End(i) <= Budget
                          \/ i <= 2 /\ 10 * Total(history, 1, 2) <= 3 * Budget
    /\ truncated <=> kept # DOMAIN history
=============================================================================
