------------------------- MODULE MCSearchMalformed -------------------------
(***************************************************************************)
(* Get on any text, step by step, and beside it Get in one step.           *)
(***************************************************************************)
EXTENDS SearchLookup, TokenTexts

MCPaths == {<<>>, << <<"a">> >>, << <<"[", "0", "]">> >>,
            << <<"a">>, <<"[", "1", "]">> >>,
            << <<"[", "1", "]">>, <<"a">> >>,
            << <<"a">>, <<>> >>}

MCInit == /\ whole \in Texts /\ data = whole
          /\ keys \in MCPaths
          /\ AskedInit

MCSpec == MCInit /\ [][AskedNext]_askedVars /\ WF_askedVars(AskedNext)

\* Every call returns, on every text: no case of the switch leaves the scan
\* where it was and no element is read twice.
Terminates == <>(pc = "done")
=============================================================================
