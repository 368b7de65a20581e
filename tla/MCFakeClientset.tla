-------------------------- MODULE MCFakeClientset --------------------------
(* Small instances of FakeClientset for TLC. *)
EXTENDS FakeClientset, TLC

TwoValues == {1, 2}

\* No entries or labels, and one, which the test changes or makes nil.
SomeContents == {<< >>, <<1>>}
=============================================================================
