------------------------------ MODULE LocalFiles ------------------------------
(***************************************************************************)
(* What the package keeps or reads beside the candle store: ranges of a    *)
(* CSV segment, the bar cache of the command line, trades and footprints,  *)
(* archive ZIPs, and offline files.  They share no file and no state, so a *)
(* behaviour exercises one of them, chosen at the start.                   *)
(***************************************************************************)
EXTENDS CsvRange, LocalCache, FootprintPipeline, ArchiveFetch, OfflineFile

VARIABLE part    \* the part this behaviour is about

Parts == {"csv", "cache", "footprint", "archive", "offline"}
allvars == <<part, csvvars, cachevars, footvars, archvars, offlinevars>>

CsvIdle ==
  /\ file = CHOOSE f \in Files : TRUE
  /\ start = NoBound /\ end = NoBound /\ step = "idle"
  /\ low = 0 /\ high = 0 /\ best = 0 /\ probes = 0 /\ row = 1 /\ yielded = {}
ArchIdle == ArchInit /\ published = CHOOSE a \in Archives : TRUE
OfflineIdle == offline = <<>> /\ query = NoQuery /\ snapshot = NoSnapshot

Init ==
  /\ part \in Parts
  /\ IF part = "csv" THEN CsvInit ELSE CsvIdle
  /\ CacheInit
  /\ FootInit
  /\ IF part = "archive" THEN ArchInit ELSE ArchIdle
  /\ IF part = "offline" THEN OfflineInit ELSE OfflineIdle

CsvStep ==
  /\ part = "csv" /\ CsvNext
  /\ UNCHANGED <<part, cachevars, footvars, archvars, offlinevars>>
CacheStep ==
  /\ part = "cache" /\ CacheNext
  /\ UNCHANGED <<part, csvvars, footvars, archvars, offlinevars>>
FootStep ==
  /\ part = "footprint" /\ FootNext
  /\ UNCHANGED <<part, csvvars, cachevars, archvars, offlinevars>>
ArchStep ==
  /\ part = "archive" /\ ArchNext
  /\ UNCHANGED <<part, csvvars, cachevars, footvars, offlinevars>>
OfflineStep ==
  /\ part = "offline" /\ OfflineNext
  /\ UNCHANGED <<part, csvvars, cachevars, footvars, archvars>>

Next == CsvStep \/ CacheStep \/ FootStep \/ ArchStep \/ OfflineStep

Spec == Init /\ [][Next]_allvars

===============================================================================
