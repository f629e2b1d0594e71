-------------------------- MODULE MCHttpConnection --------------------------
(* Two requests on one connection: one that passes for every route, one for
   each check that a route makes, and the interesting pairs. *)
EXTENDS HttpConnection

Usual(route) ==
  [route |-> route, framing |-> IF How(route).body = "ignored" THEN "none" ELSE "stated",
   closes |-> FALSE, notification |-> FALSE, faults |-> {}, wire |-> "plain"]

With(route, faults) == [Usual(route) EXCEPT !.faults = faults]

Framed(route, framing) == [Usual(route) EXCEPT !.framing = framing]

Wired(route, wire) == [Usual(route) EXCEPT !.wire = wire]

ChecksOf(route) == {How(route).checks[i] : i \in DOMAIN How(route).checks}

(* The streaming routes make the checks of modernCall. *)
CheckedRoutes == Routes \ {"progressTool", "listen"}

Regular ==
  {Usual(route) : route \in Routes}
  \cup UNION {{With(route, {f}) : f \in ChecksOf(route)} : route \in CheckedRoutes}
  \cup {With(route, {How(route).gate}) : route \in {"messageSend", "a2aRpc", "modernCall"}}
  \cup {With(route, {"json"}) : route \in {"messageSend", "a2aRpc", "modernCall", "execute"}}
  \cup {With("cancel", {"version"}),
        With("modernCall", {"paramHeader", "supported"})}
  \cup {[Usual(route) EXCEPT !.closes = TRUE] : route \in {"cancel", "getTask"}}
  \cup {[With(route, faults) EXCEPT !.notification = TRUE] :
          route \in {"a2aRpc", "modernCall"}, faults \in {{}, {"method"}}}
  \cup {Wired("a2aRpc", "badId"), Wired("modernCall", "badId"),
        Wired("legacyStream", "badId"), Wired("progressTool", "badToken"),
        Wired("legacyCall", "badResult"), Wired("modernCall", "badResult"),
        [Wired("a2aRpc", "badId") EXCEPT !.faults = {"json"}]}
  \cup {Framed("cancel", framing) : framing \in Framing}
  \cup {Framed(route, framing) : route \in {"messageSend", "execute"},
                                 framing \in {"none", "truncated"}}
  \cup {[With("messageSend", {"media"}) EXCEPT !.framing = framing] :
          framing \in {"chunked", "large"}}

(* Bodies where none is looked for, and bodies whose length is not stated. *)
Stray == {Framed("getTask", "stated"), Framed("deleteMcp", "stated"),
          Framed("messageSend", "chunked"), Framed("modernCall", "large")}

ASSUME \A r \in Regular : WellFramed(r)
ASSUME \A r \in Stray : ~WellFramed(r)

All == Regular \cup Stray
=============================================================================
