-------------------------- MODULE MCResumableMerge --------------------------
(* Small packages for ResumableMerge: an empty file, a file of one slice,  *)
(* sizes that divide the length and sizes that do not.                     *)
EXTENDS ResumableMerge

SmallPlans == [total : 0..3, size : 1..3]
=============================================================================
