--------------------------------- MODULE Fleet ---------------------------------
(***************************************************************************)
(* The displays, of which Playback and DisplayStatus each describe a side: *)
(* what they play and whether they are heard of.                           *)
(***************************************************************************)
CONSTANTS Displays,
          None,        \* no row, no content, nothing kept
          MaxChanges,  \* bound: changes made, and in DisplayStatus hours begun or ended
          MaxFaults    \* bound: failed calls, closed streams, failed passes and restarts
=============================================================================
