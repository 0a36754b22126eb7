------------------------------- MODULE Origin -------------------------------
(***************************************************************************)
(* glob_match of centrifugo-server/src/origin.rs, iteration by iteration:  *)
(* an Origin, in lower case, against one of the configured patterns.  A    *)
(* pattern has '*' for any run of characters and '?' for any one.          *)
(***************************************************************************)
EXTENDS Naturals, Sequences

CONSTANTS
  Letters,    \* characters other than '*' and '?'
  MaxPattern, \* bound: length of a pattern
  MaxText     \* bound: length of an origin

ASSUME OriginAssumption == Letters \cap {"*", "?"} = {}

VARIABLES
  pat, text,  \* the arguments
  p, t,       \* the next character of each
  star, mark, \* the last '*' met, 0 for none, and what of text it may swallow
  match       \* "running", "yes" or "no"

globVars == <<pat, text, p, t, star, mark, match>>

Words(set, n) == UNION {[1..k -> set] : k \in 0..n}
Patterns == Words(Letters \cup {"*", "?"}, MaxPattern)
Texts == Words(Letters, MaxText)

GlobInit(patterns, texts) ==
  /\ pat \in patterns /\ text \in texts
  /\ p = 1 /\ t = 1 /\ star = 0 /\ mark = 1
  /\ match = "running"

-----------------------------------------------------------------------------
(* The loop: while t < text.len().                                         *)

InLoop == match = "running" /\ t <= Len(text)
Takes(c) == p <= Len(pat) /\ pat[p] = c

Literal ==
  /\ InLoop
  /\ Takes("?") \/ Takes(text[t])
  /\ p' = p + 1 /\ t' = t + 1
  /\ UNCHANGED <<pat, text, star, mark, match>>

AtStar ==
  /\ InLoop
  /\ Takes("*")
  /\ star' = p /\ mark' = t /\ p' = p + 1
  /\ UNCHANGED <<pat, text, t, match>>

Stuck == InLoop /\ ~Takes("?") /\ ~Takes("*") /\ ~Takes(text[t])

\* The last '*' swallows one more character.
Backtrack ==
  /\ Stuck /\ star # 0
  /\ mark' = mark + 1
  /\ p' = star + 1 /\ t' = mark'
  /\ UNCHANGED <<pat, text, star, match>>

Fail ==
  /\ Stuck /\ star = 0
  /\ match' = "no"
  /\ UNCHANGED <<pat, text, p, t, star, mark>>

\* Slip: nothing may be left, not even a star.
NothingLeft == p > Len(pat)

\* What is left of the pattern may stand for nothing.
StarsLeft == \A i \in p..Len(pat) : pat[i] = "*"

End ==
  /\ match = "running" /\ t > Len(text)
  /\ match' = IF StarsLeft THEN "yes" ELSE "no"
  /\ UNCHANGED <<pat, text, p, t, star, mark>>

GlobNext == Literal \/ AtStar \/ Backtrack \/ Fail \/ End

-----------------------------------------------------------------------------
(* Properties.                                                             *)

\* How much of the text a character of the pattern may bring lengths to.
Extend(lengths, c) ==
  IF c = "*" THEN {n \in 0..Len(text) : \E m \in lengths : m <= n}
  ELSE {n \in 1..Len(text) : n - 1 \in lengths /\ (c = "?" \/ text[n] = c)}

\* How much of the text the first i characters of the pattern may stand for.
Reach[i \in 0..Len(pat)] == IF i = 0 THEN {0} ELSE Extend(Reach[i - 1], pat[i])

Matches == Len(text) \in Reach[Len(pat)]

\* Going back to the last '*' alone finds a match whenever there is one (origin.rs
\* glob_match), in an origin without '*' and '?': no origin has them, and the loop
\* would take a '*' in it for the one of the pattern.
GlobAgrees == match # "running" => (match = "yes") = Matches
=============================================================================
