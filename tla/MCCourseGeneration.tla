-------------------------- MODULE MCCourseGeneration --------------------------
(* Instances of CourseGeneration for TLC. *)
EXTENDS CourseGeneration

\* Two chapters, the second depending on the first: two waves.
ChainDeps == [c \in Chapters |-> IF c = 1 THEN {0} ELSE {}]

\* Every chapter is approved, and the course is to be created.
NewCourse == {[approved |-> Chapters, course |-> 0]}
=============================================================================
