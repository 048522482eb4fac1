------------------------------ MODULE UnitNames ------------------------------
(* The names of the units of a workspace (Workspace::units_by_name), which *)
(* every module about units shares.                                        *)
EXTENDS FiniteSets

CONSTANT Names

ASSUME NamesFinite == IsFiniteSet(Names)
=============================================================================
