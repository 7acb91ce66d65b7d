-------------------------------- MODULE MCRt --------------------------------
EXTENDS Rt

MCOnPorts == {0, ALL}
MCDflts == {0, DROP}
MCVals == {1, DFLT_PORT}
MCRteValues == {1, DROP, LVL_G0, McMsk(0)}
Info(tt, did, mask, used) == [tt |-> tt, did |-> did, mask |-> mask, in_use |-> used]
MCInfos == {Info("dev8", 1, {0, 1}, TRUE), Info("dev16", 257, {1}, TRUE),
            Info("dev8", 1, {0, 2}, TRUE), Info("dev8", 1, {}, FALSE)}
MCOneInfo == {Info("dev8", 1, {0, 1}, TRUE)}
MCLefts == {0, 1, 2, 3, 5, 8, 12, 999}
=============================================================================
