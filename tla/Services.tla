------------------------------- MODULE Services -------------------------------
(***************************************************************************)
(* What the server does for as long as it runs, side by side: the search   *)
(* index that follows the repositories (Repos), a websocket connection     *)
(* (Ws) and the configuration of WeChat payment (Wx). They share no state. *)
(***************************************************************************)
EXTENDS Repos

CONSTANTS
  Calls, Invalid, Notes, MaxWindow, NoCall,   \* of WsChannel
  Details,                                    \* calls of admin_set_wxpay_detail
  Fields, Apps, AppOf, None, Reqs, MaxBatches, MaxStarts  \* of WxConfig

VARIABLES
  \* WsChannel
  window, sent, inbox, session, reader, handler, writing, channel, got, lost,
  noted, ended,
  \* WxConfig
  rows, batches, services, req, up, starts, crowded, unsure

Ws == INSTANCE WsChannel

Wx == INSTANCE WxConfig WITH Calls <- Details

ASSUME ServicesAssumption == Ws!ConstantsAssumption /\ Wx!ConstantsAssumption

-----------------------------------------------------------------------------
(* Properties of the parts *)

\* Type correctness: a writer is busy whenever the buffer of its connection is
\* not empty, and a server that is down runs nothing.
ServicesTypeOK == TypeOK /\ Ws!TypeOK /\ Wx!TypeOK

\* A connection is a queue that loses nothing before it holds two messages.
FifoSpec == Ws!FifoSpec

\* Every call that is sent is answered, unless the connection ends, or three
\* calls or a notification crowd the buffer.
EveryCallAnswered == Ws!EveryCallAnswered

\* The key, the certificate and the ids of a wxpay_service come from one call.
\* A name is in cmall_config twice only if two sets have overlapped, and a set
\* that began alone prevails over whatever was in the table before.
ConfigOfOneCall == Wx!ConfigOfOneCall
=============================================================================
