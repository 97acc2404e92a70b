--------------------------- MODULE MCCourseImport ---------------------------
(* Instances of CourseImport for TLC. *)
EXTENDS CourseImport, TLC
=============================================================================
