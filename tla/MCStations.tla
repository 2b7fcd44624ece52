----------------------------- MODULE MCStations -----------------------------
(* Model-checking instances of Stations: vehicles are model values. *)
EXTENDS Stations, TLC

CarSymmetry == Permutations(Vehicles)
=============================================================================
