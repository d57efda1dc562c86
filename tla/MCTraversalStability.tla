-------------------------- MODULE MCTraversalStability --------------------------
(* The frozen schedules over the ten members, or three orders over three      *)
(* members, and subjects with at most one defect.                             *)
EXTENDS DefectDetection

SmallMembers == {"a", "b", "c"}

SmallSchedules == << <<"a", "b", "c">>, <<"c", "b", "a">>, <<"b", "a", "c">> >>

(* The theorems about defects assume this of the subjects. *)
ASSUME SubjectsAssumption == DefectsUnderTest
===============================================================================
