------------------------------- MODULE Models -------------------------------
(* models.go: an event is told apart from another by its id only.           *)

CONSTANTS
    Events,     \* event ids
    NoEvent     \* a process that holds no event

ASSUME EventsAssumption == NoEvent \notin Events
=============================================================================
