-------------------------------- MODULE Services --------------------------------
(***************************************************************************)
(* Web services, components/webservice/*: the client that calls one by     *)
(* Axis2, and the service of Axis2 that relays a call to a component.      *)
(*                                                                         *)
(* The component behind the service is called with serviceCall and answers *)
(* a value.                                                                *)
(* Axis2 takes the text of one element for a node, and hands what it gets  *)
(* in a server to the service that its dispatcher finds.                   *)
(***************************************************************************)
EXTENDS Documents

NullNode == <<>>
stringToAxiomNode(xml) ==
    IF Len(xml) = 1 /\ xml[1].kind = "element" THEN Content(<<xml[1]>>) ELSE Failure(<<"Couldn't convert XML">>, -1)
valuesToAxiomNode(l) == stringToAxiomNode(xmlWriteElements(valuesToElements(l)))
axiomNodeToValues(node) == elementsToValues(xmlReadElements(node))

\* Whatever the message, a server has one service and one operation for it.
dispatchInvoke(serverSide, action) == IF serverSide THEN "TuscanyService.execute" ELSE action

\* What the component is called with: the name of the element for the function, and the element.
\* Mutant: the component gets what is in the element, not the element.
serviceCallChildren(node) == <<Str(node[1].name), Lst(AsList(Cdr(axiomNodeToValues(node)[1][2])))>>
serviceCall(node) == <<Str(node[1].name), Lst(axiomNodeToValues(node))>>
ServiceResult(node, res) == IF node # NullNode /\ hasContent(res) THEN res.content ELSE NullNode
serviceInvoke(node, answer) == ServiceResult(node, valuesToAxiomNode(AsList(answer)))

axis2_svc_client_send_receive(action, node, answer) ==
    IF dispatchInvoke(TRUE, action) = "TuscanyService.execute" THEN serviceInvoke(node, answer) ELSE NullNode
serviceRequest(document) == valuesToAxiomNode(AsList(document))
OrNoService(req, res) ==
    IF ~hasContent(req) THEN req
    ELSE IF res = NullNode THEN Failure(<<"Couldn't invoke Axis2 service">>, -1)
    ELSE Content(Lst(axiomNodeToValues(res)))
sendRequest(func, req, answer) == OrNoService(req, axis2_svc_client_send_receive(func, req.content, answer))
evalService(func, document, answer) == sendRequest(func, serviceRequest(document), answer)
=============================================================================
