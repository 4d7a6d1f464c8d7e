--------------------------------- MODULE Absence ---------------------------------
(* The two values that stand for what is not there.                            *)
CONSTANTS
    None,    \* Python's None: no file, no value, no answer
    Torn     \* a file that was not written to its end
================================================================================
