----------------------------- MODULE MCImportSteps -----------------------------
(* ImportSteps on small instances.                                          *)
EXTENDS ImportSteps

MCMandatory == [c \in CmClients |-> IF c = 1 THEN {"clientRefA"} ELSE {}]

\* A New Zealand file with trucks, and a file of another layout.
MCColumns ==
  <<<<<<"order", "number">>, <<"shipper">>, <<"pickup", "address">>, <<"pickup", "suburb">>, <<"address">>,
      <<"suburb">>, <<"contact", "phone">>, <<"total", "weight">>, <<"service">>, <<"reference", "a">>>>,
    <<<<"job", "id">>, <<"sender">>, <<"street">>, <<"suburb">>, <<"city">>, <<"state">>, <<"zip">>,
      <<"recipient">>, <<"phone">>, <<"weight">>>>>>

MCBlank == <<{<<"pickup", "suburb">>}, {}>>

MCTruckColumns == <<{<<"service">>}, {}>>

\* A template saved for a routed import.
MCTemplateMap ==
  <<[k \in CmKeys |->
       CASE k = "jobNumber" -> <<"order", "number">>
         [] k = "weight" -> <<"total", "weight">>
         [] k = "toSuburb" -> <<"suburb">>
         [] OTHER -> CmNone]>>

\* The total of the load as a weight of its parts, and no speed.
MCByHand == {<<"weight", <<"total", "weight">>>>, <<"weight", CmNone>>, <<"speed", CmNone>>}

MCRow(name, post, to, from) == [name |-> name, post |-> post, to |-> to, from |-> from]

\* In NZ a suburb by its alias and one that the list does not have, and another file; a zip code in the US.
MCSheets ==
  <<[client |-> 1, file |-> 1,
     rows |-> <<MCRow("Mount Eden", "1024", "a1", ""), MCRow("Neverland", "", "a2", "d")>>],
    [client |-> 1, file |-> 2, rows |-> <<MCRow("Mt Eden", "1024", "a3", "")>>],
    [client |-> 2, file |-> 1, rows |-> <<MCRow("10009", "", "b", "")>>]>>

MCFold ==
  [n \in {"Mount Eden", "Mt Eden", "Neverland", "Newton", "10001", "10009"} |->
     CASE n = "Mount Eden" -> "mount eden" [] n = "Mt Eden" -> "mt eden" [] n = "Neverland" -> "neverland"
       [] n = "Newton" -> "newton" [] OTHER -> n]

MCLists == [us |-> {"10001"}, nz |-> {"Mt Eden", "Newton"}]

MCAliases == [a \in {"mount eden"} |-> [name |-> "Mt Eden", post |-> "1024"]]

MCSuggests ==
  [a \in {"a1", "a2", "a3", "b", "d"} |->
     CASE a = "a1" -> "1025" [] a = "a2" -> "1010" [] a = "b" -> "10001" [] OTHER -> ""]
================================================================================
