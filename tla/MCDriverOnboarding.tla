-------------------------- MODULE MCDriverOnboarding --------------------------
\* A visit for each page: what it starts with and how much happens.
EXTENDS DriverOnboarding

Tour(first, start, pages, clicks, faults, moves_) ==
  [first |-> first, tab |-> "personal", loaded |-> FALSE, start |-> start,
   dummy |-> {}, pages |-> pages, clicks |-> clicks, faults |-> faults, moves |-> moves_]
AtProfile(tab, loaded, start, pages, clicks, faults, moves_) ==
  [Tour("profile", start, pages, clicks, faults, moves_) EXCEPT !.tab = tab, !.loaded = loaded]
Placeholders(dummy, tour_) == [tour_ EXCEPT !.dummy = dummy]

MCTours == {
  Tour("register", "new", {}, 6, 1, 0),
  Tour("email", "new", {"email", "phone", "pending"}, 3, 1, 2),
  Tour("phone", "new", {"phone", "pending"}, 3, 1, 1),
  Tour("phone", "new", {"profile"}, 2, 0, 1),
  AtProfile("vehicle", FALSE, "sent", {}, 2, 1, 0),
  AtProfile("vehicle", FALSE, "new", {}, 4, 0, 0),
  Placeholders({"init"}, AtProfile("vehicle", TRUE, "sent", {}, 3, 0, 1)),
  Placeholders({"init", "driver"}, AtProfile("personal", TRUE, "new", {}, 4, 0, 1)),
  AtProfile("vehicle", TRUE, "new", {}, 3, 1, 1),
  AtProfile("vehicle", TRUE, "sent", {"pending", "profile"}, 4, 0, 0),
  AtProfile("documents", TRUE, "sent", {}, 3, 0, 1),
  AtProfile("documents", TRUE, "sent", {}, 3, 1, 0),
  AtProfile("personal", TRUE, "sent", {}, 3, 1, 1)}

\* The waiting page alone.
MCWaiting == {Tour("pending", "new", {}, 1, 0, 1)}

\* A visit without anybody else, without faults and without other pages, that
\* begins with the first reads.
MCFirstRead == {AtProfile("vehicle", FALSE, "new", {}, 4, 0, 0)}

\* The vehicle on file looks like a placeholder and is read.
MCPlaceholder == {Placeholders({"init"}, AtProfile("vehicle", TRUE, "sent", {}, 3, 0, 0))}
=============================================================================
