----------------------------- MODULE MC_Pyplot -----------------------------
(* The eight scripts of src/ run one after another, in every order.       *)
EXTENDS Scripts

MCFiles == ProgArgs("save")
MCArtists == ProgArgs("draw")
=============================================================================
