------------------------------ MODULE Workload ------------------------------
(***************************************************************************)
(* From the command line to the descriptors the generator is given:        *)
(* parse_args of main.cpp, WorkloadLoader, SimulationController::setup.    *)
(*                                                                         *)
(* An option is a record.  The options that do not touch the workload are  *)
(* one ("other").  A line of a CSV file is a record too: what its first    *)
(* character is and whether its fields parse is all the loader looks at.   *)
(* The random numbers are a table: a profile and the seed, which is always *)
(* 42, determine them.  Names and the interactive flag are left out.       *)
(***************************************************************************)
EXTENDS Integers, Sequences, Functions

CONSTANTS Profiles,       \* name -> [total, burstMin, burstMax, draws]
          DefaultProfile, \* "mixed"
          DEFAULT_COUNT,  \* 50: generated when the profile names no number
          Files,          \* name -> lines, or Unreadable
          CommandLines,   \* sequences of options
          Unreadable, NoFile,
          CastOfNegative  \* what a negative double may become as a Tick

Parses(line) == line.kind \in {"row", "signed"}
Descriptors == [pid : Nat, arrival : Nat, burst : Nat]
IsList(s) == s \in Seq(Range(s))
Options == UNION {Range(line) : line \in CommandLines}
Counts == {DEFAULT_COUNT} \cup {Profiles[w].total : w \in DOMAIN Profiles}
          \cup {o.value : o \in {q \in Options : q.name = "count"}}

(* An unknown profile is the option "unknown", a count that is no number   *)
(* is "malformed".  For every process there is a draw.                     *)
ASSUME WorkloadAssumption ==
  /\ DefaultProfile \in DOMAIN Profiles /\ NoFile \notin DOMAIN Files
  /\ DEFAULT_COUNT \in Nat \ {0} /\ CastOfNegative \subseteq Nat
  /\ Counts \subseteq Int
  /\ \A w \in DOMAIN Profiles :
       /\ Profiles[w].burstMin \in Nat /\ Profiles[w].burstMax \in Nat
       /\ Profiles[w].burstMin <= Profiles[w].burstMax
       /\ \A n \in Counts : \A i \in 1 .. n :
            Profiles[w].draws[i] \in [gap : Int, burst : Int]
  /\ \A f \in DOMAIN Files : Files[f] # Unreadable =>
       /\ IsList(Files[f])
       /\ \A l \in Range(Files[f]) : Parses(l) => l.desc \in Descriptors
  /\ \A line \in CommandLines : IsList(line)
  /\ \A o \in Options :
       /\ o.name = "workload" => o.value \in DOMAIN Profiles
       /\ o.name = "csv" => o.value \in DOMAIN Files

VARIABLES phase,    \* how far main and setup are
          argv,     \* the command line
          argIndex, \* the next option
          config,   \* SimConfig: profile, its total_count, CSV file, max_processes
          descs,    \* the descriptors
          expected, \* total_expected_
          cast      \* what negative doubles become: undefined behaviour

setupVars == <<phase, argv, argIndex, config, descs, expected, cast>>

Descriptor(pid, arrival, burst) == [pid |-> pid, arrival |-> arrival, burst |-> burst]

WorkloadInit ==
  /\ phase = "parse" /\ argv \in CommandLines /\ argIndex = 1
  /\ config = [profile |-> DefaultProfile, total |-> Profiles[DefaultProfile].total,
               csv |-> NoFile, max |-> 0]
  /\ descs = <<>> /\ expected = 0 /\ cast \in CastOfNegative
-----------------------------------------------------------------------------
(* parse_args, one option.  main does not catch what std::stoi throws. *)
ApplyToProfile(option) ==  \* mutant: --count only sets the profile's total_count
  CASE option.name = "workload" ->
         [config EXCEPT !.profile = option.value, !.total = Profiles[option.value].total]
    [] option.name = "csv"   -> [config EXCEPT !.csv = option.value]
    [] option.name = "count" -> [config EXCEPT !.total = option.value]
    [] OTHER -> config
Apply(option) ==
  CASE option.name = "workload" ->
         [config EXCEPT !.profile = option.value, !.total = Profiles[option.value].total]
    [] option.name = "csv"   -> [config EXCEPT !.csv = option.value]
    [] option.name = "count" -> [config EXCEPT !.max = option.value, !.total = option.value]
    [] OTHER -> config
ParseOption ==
  /\ phase = "parse" /\ argIndex <= Len(argv)
  /\ IF argv[argIndex].name \in {"help", "unknown", "malformed"}
     THEN phase' = "exited" /\ UNCHANGED <<argIndex, config>>
     ELSE /\ config' = Apply(argv[argIndex])
          /\ argIndex' = argIndex + 1
          /\ UNCHANGED phase
  /\ UNCHANGED <<argv, descs, expected, cast>>
-----------------------------------------------------------------------------
(* WorkloadLoader::generate *)
AtLeastOne(gap) == IF gap < 1 THEN 1 ELSE gap
ClampedBelow(burst, w) ==  \* mutant: no upper limit
  LET raw == IF burst < 0 THEN cast ELSE burst
  IN IF raw > Profiles[w].burstMin THEN raw ELSE Profiles[w].burstMin
Clamped(burst, w) ==
  LET raw == IF burst < 0 THEN cast ELSE burst
      low == IF raw < Profiles[w].burstMax THEN raw ELSE Profiles[w].burstMax
  IN IF low > Profiles[w].burstMin THEN low ELSE Profiles[w].burstMin
NumberOf(total) == IF total > 0 THEN total ELSE DEFAULT_COUNT
Arrivals(w, n) ==
  LET arrival[i \in 0 .. n] ==
        IF i = 0 THEN 0 ELSE arrival[i - 1] + AtLeastOne(Profiles[w].draws[i].gap)
  IN arrival
Generate(w, total) ==
  LET n == NumberOf(total)
      arrival == Arrivals(w, n)
  IN [i \in 1 .. n |->
        Descriptor(i, arrival[i], Clamped(Profiles[w].draws[i].burst, w))]

(* WorkloadLoader::from_csv, line by line.  A line is a comment (or empty),*)
(* a "row", which begins with a digit, a "signed" row, which parses too    *)
(* but begins with something else, such as a blank, a "broken" row, which  *)
(* begins with a digit and does not parse, or "text".                      *)
ReadLineAfterHeader(acc, line) ==  \* mutant: the first line is always a header
  CASE line.kind = "comment" -> acc
    [] acc.first -> [acc EXCEPT !.first = FALSE]
    [] OTHER -> [acc EXCEPT !.descs = IF Parses(line) THEN Append(@, line.desc) ELSE @]
ReadLine(acc, line) ==
  CASE line.kind = "comment" -> acc
    [] acc.first /\ line.kind \in {"signed", "text"} -> [acc EXCEPT !.first = FALSE]
    [] OTHER ->
         [first |-> FALSE,
          descs |-> IF Parses(line) THEN Append(acc.descs, line.desc) ELSE acc.descs]
Reader(lines) ==
  LET read[n \in 0 .. Len(lines)] ==
        IF n = 0 THEN [first |-> TRUE, descs |-> <<>>] ELSE ReadLine(read[n - 1], lines[n])
  IN read
FromCsv(lines) == Reader(lines)[Len(lines)].descs

(* WorkloadLoader::to_csv *)
ToCsv(ds) == <<[kind |-> "text"]>> \o [i \in DOMAIN ds |-> [kind |-> "row", desc |-> ds[i]]]

(* setup; an exception of from_csv ends the program *)
Load ==
  /\ phase = "parse" /\ argIndex > Len(argv)
  /\ IF config.csv = NoFile
     THEN descs' = Generate(config.profile, config.total) /\ phase' = "loaded"
     ELSE IF Files[config.csv] = Unreadable
     THEN phase' = "exited" /\ UNCHANGED descs
     ELSE descs' = FromCsv(Files[config.csv]) /\ phase' = "loaded"
  /\ UNCHANGED <<argv, argIndex, config, expected, cast>>

Smaller(m, n) == IF m < n THEN m ELSE n
Trim ==
  /\ phase = "loaded"
  /\ expected' = IF config.max > 0 THEN Smaller(Len(descs), config.max) ELSE Len(descs)
  /\ descs' = IF config.max > 0 /\ Len(descs) > config.max
              THEN SubSeq(descs, 1, config.max) ELSE descs
  /\ phase' = "trimmed"
  /\ UNCHANGED <<argv, argIndex, config, cast>>

WorkloadNext == ParseOption \/ Load \/ Trim
-----------------------------------------------------------------------------
(* main.cpp:30 "--count <n> Number of processes to simulate": never more,  *)
(* and exactly n of a profile that was named before.  (A profile named     *)
(* after --count brings its own number back, and may be smaller.)          *)
CountIsRespected ==
  phase = "trimmed" =>
    \A i \in DOMAIN argv :
      LET n == argv[i].value
          later == {argv[j].name : j \in i + 1 .. Len(argv)}
      IN argv[i].name = "count" /\ n > 0 /\ "count" \notin later =>
           /\ expected <= n
           /\ config.csv = NoFile /\ "workload" \notin later => expected = n

(* A generated workload is one the generator and the schedulers can take:  *)
(* arrivals increase, whatever the inter-arrival times drawn, and bursts   *)
(* are in the profile's range, whatever the cast of a negative one gives.  *)
GeneratedIsLegal ==
  phase \in {"loaded", "trimmed"} /\ config.csv = NoFile =>
    /\ \A i, j \in DOMAIN descs : i < j => descs[i].arrival < descs[j].arrival
    /\ \A i \in DOMAIN descs :
         descs[i].burst \in Profiles[config.profile].burstMin ..
                            Profiles[config.profile].burstMax

(* Loading gives the rows that parse, in their order; the first line that  *)
(* is not a comment is dropped, even if it would parse, unless it begins   *)
(* with a digit.  What to_csv writes loads as it was.                      *)
Rows(lines) ==
  {i \in DOMAIN lines :
     /\ Parses(lines[i])
     /\ lines[i].kind = "signed" => \E j \in 1 .. i - 1 : lines[j].kind # "comment"}
RowsInOrder(ds, lines) ==
  \E at \in [DOMAIN ds -> DOMAIN lines] :
    /\ \A i, j \in DOMAIN ds : i < j => at[i] < at[j]
    /\ Range(at) = Rows(lines)
    /\ \A i \in DOMAIN ds : ds[i] = lines[at[i]].desc
CsvKeepsRows ==
  phase = "loaded" =>
    /\ FromCsv(ToCsv(descs)) = descs
    /\ config.csv # NoFile => RowsInOrder(descs, Files[config.csv])
=============================================================================
