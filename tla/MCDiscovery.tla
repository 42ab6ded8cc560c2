---------------------------- MODULE MCDiscovery ----------------------------
(* Instances of Discovery for TLC.                                          *)
EXTENDS Discovery, TLC

Of(kind, author) == [kind |-> kind, author |-> author, action |-> "none"]
Decision(author, action) ==
    [kind |-> "view_decision", author |-> author, action |-> action]

\* Notices and decisions by a recognised author and by burner keys.
ProfileBodies ==
    {Of("person_impact_notice", "burner"), Of("restriction_notice", "burner"),
     Of("restriction_notice", "editor"), Decision("editor", "enable"),
     Decision("editor", "restrict"), Decision("burner", "enable"),
     Of("attestation", "x"), Of("attestation", "y"), Of("attestation", "author"),
     Of("dispute", "x"), Of("correction", "author")}

\* One of each that matters to a pair of records.
PairBodies ==
    {Of("person_impact_notice", "burner"), Of("restriction_notice", "editor"),
     Decision("editor", "enable"), Decision("editor", "restrict"),
     Of("attestation", "x"), Of("dispute", "x"), Of("correction", "author")}

\* The linked records are interchangeable until they arrive.
SlotSymmetry == Permutations(Slots)
=============================================================================
