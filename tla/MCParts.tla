------------------------------ MODULE MCParts ------------------------------
(***************************************************************************)
(* Four modules that share no state, for one run of TLC: the initial state *)
(* says which of them takes the steps.  The variables of the others keep   *)
(* one of their initial values.                                            *)
(***************************************************************************)
EXTENDS Sources, Readers, Sink, Journald

MCLocations == [e \in Entry |-> IF e = "glob" THEN {"p", "q"} ELSE {"p"}]
MCKind == [e \in Entry |-> IF e = "j" THEN "journald" ELSE "syslog"]
MCInstalled == [c \in Conf |-> IF c = "c1" THEN {"glob"} ELSE Entry \ {"glob"}]

\* A pattern that looks at the first character: "h" or the one of two bytes.
MCPattern ==
  {line \in UNION {[1 .. n -> LineByte \cup {"ab", "?"}] : n \in 1 .. MaxText} :
     line[1] \in {"h", "ab"}}

VARIABLE part

partsVars == <<part, vars, readerVars, sinkVars, journaldVars>>

PartsInit ==
  /\ part \in {"sources", "readers", "sink", "journald"}
  /\ SourcesInit /\ (part # "sources" => path = [p \in Path |-> "absent"])
  /\ ReadersInit /\ (part # "readers" => kind = CHOOSE k \in ReaderKind : TRUE)
  /\ SinkInit
  /\ JournaldInit /\ (part # "journald" => journal = 0)

SourcesStep(A) ==
  part = "sources" /\ A /\ UNCHANGED <<part, readerVars, sinkVars, journaldVars>>

JournaldStep(A) ==
  part = "journald" /\ A /\ UNCHANGED <<part, vars, readerVars, sinkVars>>

PartsNext ==
  \/ SourcesStep(SourcesNext)
  \/ part = "readers" /\ ReadersNext /\ UNCHANGED <<part, vars, sinkVars, journaldVars>>
  \/ part = "sink" /\ SinkNext /\ UNCHANGED <<part, vars, readerVars, journaldVars>>
  \/ JournaldStep(JournaldNext)

\* SourcesFairness and JournaldFairness, of the part that takes the steps.
PartsFairness ==
  /\ SF_partsVars(SourcesStep(Load \/ LoadRaises)) /\ SF_partsVars(SourcesStep(Retry))
  /\ SF_partsVars(SourcesStep(Sync)) /\ WF_partsVars(SourcesStep(ValidateUnvalid))
  /\ WF_partsVars(SourcesStep(Validate)) /\ WF_partsVars(SourcesStep(Unlock))
  /\ WF_partsVars(JournaldStep(ReadOn)) /\ SF_partsVars(JournaldStep(Insert))
  /\ WF_partsVars(JournaldStep(\E n \in 1 .. MaxNotes : AckNotes(n)))

PartsSpec == PartsInit /\ [][PartsNext]_partsVars /\ PartsFairness

\* The tables of AgentLogConfig, the files of the sink, and cursors and pending acks
\* keep the shapes that their modules give them.
PartsTypeOK == SourcesTypeOK /\ SinkTypeOK /\ JournaldTypeOK
=============================================================================
