---------------------------- MODULE MCTaskListing ----------------------------
(* Requests that create, continue and cancel three tasks, and a client that
   lists them all, by context, by time or by state. *)
EXTENDS TaskListing

CONSTANTS h1, k1, c1, c2

Request(id, key, context, manifest, immediate, asks) ==
  [id |-> id, key |-> key, context |-> context, manifest |-> manifest,
   immediate |-> immediate, asks |-> asks]

Message(id, context, completes) ==
  [id |-> id, context |-> context, completes |-> completes]

SomeCreates ==
  {Request("asking", k1, c2, "none", "no", TRUE),
   Request("plain", NoKey, c1, "none", "yes", FALSE),
   Request("invalid", NoKey, c1, "none", "notBoolean", FALSE)}

SomeFollows == {Message("other", c2, FALSE), Message("done", NoContext, TRUE)}

By(context, state, after) == [context |-> context, state |-> state, after |-> after]

SomeFilters == {By(NoContext, "any", 0), By(c1, "any", 0),
                By(NoContext, "any", 1), By(NoContext, "WORKING", 0)}
=============================================================================
