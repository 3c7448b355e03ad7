----------------------------- MODULE LinkModes -----------------------------
(***************************************************************************)
(* The link of CreditLink in both stall modes of HgraArray::run.  In the   *)
(* mode none a cycle visits the nodes against the order of the             *)
(* configuration: the consumers that come after the source have taken and  *)
(* reported before its turn, recvOneBp hands it their credit in the same   *)
(* cycle, and nextStep1 stores what it sends in every consumer at once.    *)
(* The consumers that come before it report when it has had its turn, and  *)
(* InitBp forgets what they said.                                          *)
(*                                                                         *)
(* Whether a consumer takes its oldest entry is free, which covers         *)
(* stall_one; elements that pass their operands on in the same cycle       *)
(* (all_comb, input_bypass) are left out.                                  *)
(***************************************************************************)
EXTENDS CreditLink

VARIABLE stall_mode

modeVars == <<vars, stall_mode>>

InitModes == Init /\ stall_mode \in {"none", "inbuffer_stall"}

(* simStep2 and simBp of a consumer.  What the source sent is stored.       *)
ConsumerVisit(p, take) ==
  /\ stall_mode = "none"
  /\ p \in todo
  /\ (p \in Before) = source_done
  /\ take => NotEmpty(buf[p])
  /\ LET left == IF take THEN Reset(buf[p]) ELSE buf[p]
     IN  /\ buf' = [buf EXCEPT ![p] = left]
         /\ bp_temporary' = SetBp(bp_temporary, GetBp(left))
  /\ todo' = todo \ {p}
  /\ UNCHANGED <<input_port, next_bp, source_done, stall_mode>>

(* nextStep1: every consumer stores what is on its wire.                    *)
NextStep1(tok) == [p \in Port |-> SimStep1(buf[p], tok)]

(* Mutation: the source acts on the credit of the cycle before.             *)
SourceVisitStale(tok) ==
  /\ stall_mode = "none" /\ ~source_done /\ todo \cap After = {}
  /\ tok # Free => next_bp
  /\ next_bp' = bp_temporary
  /\ input_port' = [p \in Port |-> tok] /\ buf' = NextStep1(tok)
  /\ source_done' = TRUE
  /\ UNCHANGED <<bp_temporary, todo, stall_mode>>

(* recvOneBp, the steps of the source that send, sendOutput, nextStep1.     *)
SourceVisit(tok) ==
  /\ stall_mode = "none"
  /\ ~source_done
  /\ todo \cap After = {}
  /\ next_bp' = bp_temporary
  /\ tok # Free => next_bp'
  /\ input_port' = [p \in Port |-> tok]
  /\ buf' = NextStep1(tok)
  /\ source_done' = TRUE
  /\ UNCHANGED <<bp_temporary, todo, stall_mode>>

(* wireReset, then InitBp at the top of the next cycle; no setAllBp.        *)
EndVisits ==
  /\ stall_mode = "none"
  /\ source_done
  /\ todo = {}
  /\ bp_temporary' = TRUE
  /\ input_port' = [p \in Port |-> Free]
  /\ todo' = Port
  /\ source_done' = FALSE
  /\ UNCHANGED <<buf, next_bp, stall_mode>>

(* The steps of CreditLink, in the mode inbuffer_stall.                     *)
Stalling(p, take) == stall_mode = "inbuffer_stall" /\ ConsumerUpdate(p, take) /\ UNCHANGED stall_mode
Sending(tok) == stall_mode = "inbuffer_stall" /\ SourceUpdate(tok) /\ UNCHANGED stall_mode
Ending == stall_mode = "inbuffer_stall" /\ EndCycle /\ UNCHANGED stall_mode

NextModes ==
  \/ \E p \in Port, take \in BOOLEAN : Stalling(p, take) \/ ConsumerVisit(p, take)
  \/ \E tok \in Token \cup {Free} : Sending(tok) \/ SourceVisit(tok)
  \/ Ending
  \/ EndVisits

(* As in CreditLink: run() visits every node in every cycle, in either      *)
(* mode, and a consumer that has something to take takes in the end.        *)
FairnessModes ==
  /\ \A p \in Port :
       /\ WF_modeVars(\E take \in BOOLEAN : Stalling(p, take) \/ ConsumerVisit(p, take))
       /\ SF_modeVars(Stalling(p, TRUE) \/ ConsumerVisit(p, TRUE))
  /\ WF_modeVars(\E tok \in Token \cup {Free} : Sending(tok) \/ SourceVisit(tok))
  /\ WF_modeVars(Ending \/ EndVisits)

SpecModes == InitModes /\ [][NextModes]_modeVars /\ FairnessModes
-----------------------------------------------------------------------------
(* In the mode none a token is on the wire and in the buffers of all later  *)
(* consumers in one step, or it is lost, since nextStep1 does not look at   *)
(* the result of input() either: the credit that comes straight from these  *)
(* consumers must always be right.                                          *)
StoredAtOnce ==
  [][stall_mode = "none" /\ ~source_done /\ source_done' =>
       \A p \in After : Content(buf'[p]) = Content(buf[p]) \o
         (IF input_port'[p] = Free THEN << >> ELSE <<input_port'[p]>>)]_modeVars
-----------------------------------------------------------------------------
(***************************************************************************)
(* The inductive invariant.  In the mode none the wires are clear until    *)
(* the source's turn, every consumer after it has reported by then, and    *)
(* one that has reported room keeps it: nobody else stores into its        *)
(* buffer.  In the mode inbuffer_stall it is that of CreditLink.           *)
(***************************************************************************)
PhaseNone ==
  /\ source_done => todo \cap After = {}
  /\ ~source_done => Before \subseteq todo

WireNone == ~source_done => \A p \in Port : input_port[p] = Free

CreditNone == ~source_done /\ bp_temporary => \A p \in After \ todo : NotFull(buf[p])

IInvNone == TypeOK /\ BuffersConsistent /\ PhaseNone /\ WireNone /\ CreditNone

IInvModes ==
  /\ stall_mode \in {"none", "inbuffer_stall"}
  /\ stall_mode = "none" => IInvNone
  /\ stall_mode = "inbuffer_stall" => IInv
=============================================================================
