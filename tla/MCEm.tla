-------------------------------- MODULE MCEm --------------------------------
EXTENDS Em
Ev(e, det, info) == [e |-> e, det |-> det, info |-> info]
Rate(thr) == ErrInfo({1}, 0, 2, thr)
On(e) == Ev(e, "on", CASE e = "f_err_rate" -> Rate(2) [] e = "d_log" -> {"UNSUP", "UNS_RSP", "ILL_TYPE"} [] OTHER -> 2)
Off(e) == Ev(e, "off", CASE e = "f_err_rate" -> Rate(2) [] e = "d_log" -> {} [] OTHER -> 1)
Order == <<"f_los", "f_port_err", "f_2many_retx", "f_2many_pna", "f_err_rate", "d_ttl", "d_rte", "d_log", "i_sig_det", "i_rst_req", "i_init_fail">>
AllOn == [i \in DOMAIN Order |-> On(Order[i])]
AllOff == [i \in DOMAIN Order |-> Off(Order[i])]
Few == {AllOn, AllOff, <<On("f_los"), On("f_err_rate"), Off("f_2many_pna"), On("d_log")>>, <<Off("f_los"), On("d_rte"), Ev("f_2many_retx", "on", 0)>>,
           <<Off("f_err_rate"), Ev("i_sig_det", "on", 0), Ev("f_los", "0delta", 0)>>}
MCEvCfgs == [f \in Families |-> Few]
Dev(f) == IF f = "TSI721" THEN 0 ELSE NoPort
MCCreated == [f \in Families |->
   {<<<<0, e>>>> : e \in {"f_los", "f_2many_pna", "f_err_rate", "f_port_err", "d_rte"}} \cup
   {<<<<0, "f_2many_retx">>, <<Dev(f), "d_log">>>>, <<<<1, "d_ttl">>, <<0, "i_sig_det">>, <<Dev(f), "i_init_fail">>>>, <<<<0, "i_rst_req">>, <<0, "last">>>>}]
MCSetLists == {ALL_PORTS, <<0>>}
=============================================================================
