----------------------------- MODULE MCA2ATasks -----------------------------
(* Small instances of A2ATasks for TLC. *)
EXTENDS A2ATasks, TLC

CONSTANTS h1, h2, h3, k1, k2, c1, c2

Request(id, key, context, manifest, immediate, asks) ==
  [id |-> id, key |-> key, context |-> context, manifest |-> manifest,
   immediate |-> immediate, asks |-> asks]

Message(id, context, completes) ==
  [id |-> id, context |-> context, completes |-> completes]

(* Three requests race for one key: a task that stays open, one that differs,
   and one that cannot be built. *)
RacingCreates ==
  {Request("open", k1, c1, "none", "yes", FALSE),
   Request("run", k1, c1, "runs", "no", FALSE),
   Request("broken", k1, c1, "none", "notBoolean", FALSE)}

(* k1 is asked for by requests that can fail, k2 by ones that cannot, and one
   request carries no key. *)
TwoKeyCreates ==
  {Request("broken", k1, c1, "raises", "no", FALSE),
   Request("open", k1, c1, "none", "yes", FALSE),
   Request("finished", k2, c1, "none", "no", FALSE),
   Request("plain", NoKey, c1, "none", "yes", FALSE)}

(* One request that leaves its task open. *)
OpenCreate == {Request("open", k1, c1, "none", "yes", FALSE)}

(* A message that leaves its task as open as it found it. *)
OpenFollows == {Message("more", NoContext, FALSE)}

RacingFollows == {Message("done", NoContext, TRUE)}

HandlerSymmetry == Permutations({h1, h2, h3})
=============================================================================
