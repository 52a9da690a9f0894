---------------------------- MODULE MCTripRecords -----------------------------
\* Whose pages, how long their lists are, and how much happens.
EXTENDS TripRecords

Tour(viewer, lengths, past, clicks, moves_, faults, months) ==
  [viewer |-> viewer, size |-> lengths[1], recent |-> lengths[2], summed |-> lengths[3], past |-> past,
   clicks |-> clicks, moves |-> moves_, faults |-> faults, months |-> months]

\* The history is shorter than a page, longer than one, and longer than the
\* list of payments or its summary.
MCTours == {
  Tour("rider", <<2, 1, 4>>, 1, 2, 1, 0, 0),
  Tour("rider", <<2, 1, 4>>, 3, 2, 0, 0, 0),
  Tour("rider", <<1, 1, 3>>, 2, 2, 1, 0, 0),
  Tour("rider", <<1, 1, 1>>, 2, 2, 0, 1, 1),
  Tour("driver", <<2, 1, 2>>, 1, 2, 2, 0, 0),
  Tour("driver", <<1, 1, 2>>, 1, 1, 3, 1, 1)}
=============================================================================
