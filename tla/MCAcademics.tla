---------------------------- MODULE MCAcademics ----------------------------
(* Small instances of Academics for TLC. *)
EXTENDS Academics, TLC

CONSTANTS r1, r2, r3, mon, tue, maths, hindi, unit, elder, mother, pupil

MCWeeks == {<<mon, tue>>, <<tue>>}
MCSheets == {<<maths, hindi>>, <<hindi, maths>>, <<>>}
MCRoll == <<elder>>
MCOwnRecord == [p \in {pupil} |-> elder]
MCClassOf == "5A" :> "5" @@ "6A" :> "6"
MCRecords == {[section |-> "5A", guardian |-> mother, active |-> TRUE],
              [section |-> "6A", guardian |-> NoValue, active |-> TRUE]}
RequestSymmetry == Permutations({r1, r2, r3})
=============================================================================
