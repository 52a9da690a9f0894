----------------------------- MODULE MCAdminPanel -----------------------------
(* One driver's application: a required document with details and one        *)
(* without, a vehicle of two fields.                                          *)
EXTENDS AdminPanel

Tour(start, first, loaded, pages, callBound, eventBound) ==
  [first |-> first, loaded |-> loaded, start |-> start, pages |-> pages,
   calls |-> callBound, events |-> eventBound]

\* What the detail page has in the cache when it has been open before.
Header == {"driver", "documents"}
Detail == Header \cup {"vehicle"}

\* Two calls of the administrator alone, where two can be under way together;
\* one call and one event for every page; pages that share the cache; both
\* tables that have a filter.
MCTours ==
  {Tour(s, "review", {}, {}, 2, 0) : s \in Starts}
    \cup {Tour(s, "review", {"driver"}, {"review", "profile"}, 1, 0) : s \in {"sent", "reviewed"}}
    \cup {Tour(s, "queue", {}, {"queue", "review"}, 1, 1) : s \in Starts}
    \cup {Tour(s, "profile", Header, {}, 2, 0) : s \in {"sent", "hired"}}
    \cup {Tour(s, "profile", {"documents"}, {}, 1, 1) : s \in {"sent", "hired"}}
    \cup {Tour(s, "documents", {"driver"}, {}, 1, 1) : s \in {"new", "sent"}}
    \cup {Tour("new", "vehicle", Header, {}, 1, 1),
          Tour("sent", "vehicle", Detail, {}, 1, 1),
          Tour("new", "vehicle", Detail, {}, 2, 0),
          Tour("sent", "profile", Header, {"profile", "vehicle"}, 1, 0),
          Tour("hired", "drivers", {"drivers"} \cup Header, {"drivers", "profile"}, 1, 0),
          Tour("hired", "dashboard", {}, {"dashboard", "live"}, 1, 1),
          Tour("hired", "regions", {}, {}, 2, 0)}
    \cup {Tour(s, "drivers", {}, {"drivers", "queue"}, 0, 1) : s \in {"sent", "hired"}}

\* A decision on the review page after a visit of the detail page.
MCStale == {Tour("reviewed", "review", {"driver"}, {"review", "profile"}, 1, 0)}
=============================================================================
