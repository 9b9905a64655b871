--------------------------- MODULE MCJsonSession ---------------------------
(***************************************************************************)
(* Requests for TLC: objects with and without blanks in and around them,   *)
(* and a number, which a client has to end with a blank.                   *)
(***************************************************************************)
EXTENDS JsonSession

MCRequests == { <<LBrace, RBrace>>,
                <<LBrace, Space, RBrace, Space>>,
                <<Space, LBrace, RBrace>>,
                <<Digit, Digit, Space>> }

\* Nothing behind the document, but for the blank that ends a number.
TightRequests == { <<LBrace, RBrace>>,
                   <<LBrace, Space, RBrace>>,
                   <<Space, LBrace, RBrace>>,
                   <<Digit, Digit, Space>> }

\* Clients that wait and that send ahead, on a socket and on two descriptors.
MCClients ==
  [waits : BOOLEAN, socket : BOOLEAN, requests : {MCRequests}]
  \cup { [waits |-> TRUE, socket |-> TRUE, requests |-> TightRequests] }

\* Every request is one document, as the theorems about a session suppose.
ASSUME MCDocuments == Documents

=============================================================================
