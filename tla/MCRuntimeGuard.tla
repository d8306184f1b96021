--------------------------- MODULE MCRuntimeGuard ---------------------------
(* Two API keys and SDKs, one with each fail mode, a tool the agents use and one
   they have not used yet, a profile
   that is warm or missing, one standing incident. *)
EXTENDS RuntimeGuard, TLC

CONSTANTS e1, e2, o1, o2, k1, k2, none

MCTools == {"mail", "Mail"}
MCSlugs == {"MAIL"}
MCSlugOf == [t \in MCTools |-> "MAIL"]

\* Ordinary calls, one within a budget, one denied and one that needs an approval
\* and sends an id for it; and first uses of a tool, one allowed at a volume never
\* seen, one that needs an approval and sends no id, to a new destination with
\* data of a new class.
Ordinary(outcome, id) ==
  [agent |-> "a", tool |-> "mail", vol |-> 0, dest |-> "corp", class |-> "none", id |-> id,
   outcome |-> outcome, hot |-> outcome = "approval"]
MCContents ==
  {Ordinary(d, "none") : d \in {"rate_limit", "deny"}} \cup {Ordinary("approval", "id")} \cup
  { [agent |-> "a", tool |-> "Mail", vol |-> 600, dest |-> "corp", class |-> "internal",
     id |-> "none", outcome |-> "allow", hot |-> FALSE],
    [agent |-> "b", tool |-> "Mail", vol |-> 0, dest |-> "web", class |-> "pii",
     id |-> "none", outcome |-> "approval", hot |-> FALSE] }

Warm == [calls |-> 8, counts |-> [t \in MCTools |-> IF t = "mail" THEN 8 ELSE 0],
         vol |-> [t \in MCTools |-> 0], dests |-> {"corp"}, classes |-> {"internal"}, 
         recent |-> [i \in 1 .. 5 |-> "mail"]]

MCFailMode == [e \in {e1, e2} |-> IF e = e1 THEN "open" ELSE "closed"]
MCEarlier == {<<>>, <<[agent |-> "a", open |-> TRUE, recent |-> TRUE]>>}
MCProfiles == {[a \in {"a", "b"} |-> Warm], [a \in {"a", "b"} |-> IF a = "a" THEN Warm ELSE none]}
MCStanding == <<[agent |-> "a", status |-> "resolved", stamps |-> {"resolved"}]>>

\* Bound: the window turns only while a call is about to read the clock, or has
\* read it and not incremented its counter yet: at no other time does it matter
\* to a call which window it is.
TurnsInUse ==
  window' # window => \E e \in Evals : ev[e].pc \in {"window", "consume"}

Sym == Permutations({o1, o2}) \cup Permutations({k1, k2})
=============================================================================
