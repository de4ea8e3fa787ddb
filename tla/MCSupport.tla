----------------------------- MODULE MCSupport -----------------------------
(***************************************************************************)
(* The code below the dictionaries for TLC, one part at a time: the bits   *)
(* of critnib.c on all pairs of words, the checksum on all buffers, the    *)
(* line reader on all short files, the log with two threads.               *)
(***************************************************************************)
EXTENDS CritnibBits, Util, Tlog

VARIABLE part

SupportInit ==
    /\ part \in {"bits", "checksum", "fgets", "tlog"}
    /\ IF part = "bits" THEN BitsInit ELSE key = 0 /\ path = 0
    /\ IF part = "checksum" THEN SumInit
       ELSE mem = [p \in 1 .. Words |-> 0] /\ csump = 0 /\ skip = 0 /\ sealed = <<>>
    /\ IF part = "fgets" THEN FgetsInit
       ELSE text = <<>> /\ pos = 0 /\ max = 2 /\ out = <<>> /\ cuts = {}
    /\ TlogInit

Bits     == /\ part = "bits" /\ BitsNext
            /\ UNCHANGED <<part, sumvars, fgetsvars, tlogvars>>
Checksum == /\ part = "checksum" /\ SumNext
            /\ UNCHANGED <<part, key, path, fgetsvars, tlogvars>>
Fgets    == /\ part = "fgets" /\ util_fgets
            /\ UNCHANGED <<part, key, path, sumvars, tlogvars>>
Log      == /\ part = "tlog" /\ TlogNext
            /\ UNCHANGED <<part, key, path, sumvars, fgetsvars>>

SupportSpec ==
    SupportInit /\ [][Bits \/ Checksum \/ Fgets \/ Log]_<<part, key, path, sumvars, fgetsvars, tlogvars>>
=============================================================================
