------------------------------ MODULE MCConfig ------------------------------
(***************************************************************************)
(* Small instances of Config: values below zero, which a .cfg cannot write. *)
(***************************************************************************)
EXTENDS Config

SomeFrequencies == {-1, 0, 3, 512, 1001, NotNumber}

SomePorts == {-1, NotNumber}

SomeTimes == {-2, 0, 2, NoTime, NotNumber}
=============================================================================
