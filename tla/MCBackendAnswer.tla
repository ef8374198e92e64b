--------------------------- MODULE MCBackendAnswer ----------------------------
(***************************************************************************)
(* The calls BackendAnswer is checked on: every encoding and error option  *)
(* without a body of the request, and every kind of that body with the     *)
(* default handler.                                                        *)
(***************************************************************************)
EXTENDS BackendAnswer

Answering == [encoding : Encodings, collection : BOOLEAN,
              details : {"absent", "blank", "name"}, code : BOOLEAN, resend : {FALSE},
              incoming : {"none"}, broken : {FALSE}]

Sending == [encoding : {"json"}, collection : {FALSE}, details : {"absent"}, code : {FALSE},
            resend : BOOLEAN, incoming : {"told", "untold"}, broken : BOOLEAN]

AnswerSetups == Answering \cup Sending
=============================================================================
