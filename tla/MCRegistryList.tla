--------------------------- MODULE MCRegistryList ---------------------------
(* Three certificates for TLC, two of them in one millisecond. *)
EXTENDS RegistryList, TLC

Millis == 1 :> 1 @@ 2 :> 2 @@ 3 :> 2
Micros == 1 :> 0 @@ 2 :> 3 @@ 3 :> 5
Ids == 1 :> 3 @@ 2 :> 1 @@ 3 :> 4
Courses == 1 :> "cs" @@ 2 :> "law" @@ 3 :> "cs"
=============================================================================
