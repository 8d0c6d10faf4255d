-------------------------- MODULE MCIPLocationRWLock --------------------------
(* Two lookup goroutines and one administrative goroutine; one image of    *)
(* each kind and a corrupt one; a single format (formats do not take part *)
(* in the lock protocol).                                                  *)
EXTENDS IPLocationRWLock

MCFormats == {"legacy"}
=============================================================================
