------------------------------- MODULE MCClint -------------------------------
(* Words of six values: mtime rolls over several times.                    *)
EXTENDS Clint
=============================================================================
