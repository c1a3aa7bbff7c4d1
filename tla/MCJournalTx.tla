---------------------------- MODULE MCJournalTx ----------------------------
EXTENDS JournalTx, TLC

CONSTANTS p1, p2, o1, o2, o3, a, m, d, e, k, u1, u2

\* JournalTwo: o1 moves the fact d to a and refreshes the shared catalog m
\* (canonical-upsert with origin_delete); o2 is another project's operation on the
\* catalog.  Only o1's own files carry expected revisions.
OriginTwo == (o1 :> p1) @@ (o2 :> p2)
PublishesTwo == (o1 :> {a, m}) @@ (o2 :> {m})
CreatesTwo == (o1 :> {a}) @@ (o2 :> {})
DeletesTwo == (o1 :> {d}) @@ (o2 :> {})
GuardedTwo == (o1 :> {a, d}) @@ (o2 :> {m})
RowsTwo == (o1 :> {}) @@ (o2 :> {k})
PresentTwo == {{m, d}, {a, m, d}}

\* JournalEdits: two operations of one project on the same files, the second one a
\* registry-unenroll that requires the row it read; the user edits the files.
OriginSame == (o1 :> p1) @@ (o3 :> p1)
PublishesSame == (o1 :> {a}) @@ (o3 :> {a})
CreatesSame == (o1 :> {a}) @@ (o3 :> {})
DeletesSame == (o1 :> {d}) @@ (o3 :> {})
GuardedSame == (o1 :> {a, d}) @@ (o3 :> {a})
RowsSame == (o1 :> {k}) @@ (o3 :> {k})
PresentSame == {{d}}

\* The runs of one operation: o1 moves the fact d to a.
OriginOne == o1 :> p1
PublishesOne == o1 :> {a, m}
CreatesOne == o1 :> {a}
DeletesOne == o1 :> {d}
GuardedOne == o1 :> {a, d}
RowsOne == o1 :> {}
PresentOne == {{m, d}, {m}}

=============================================================================
