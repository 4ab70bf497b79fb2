--------------------------- MODULE MCBuzzerDriver ---------------------------
(* BuzzerDriver with the files it may find, anything failing. *)
EXTENDS BuzzerDriver, TLC

MCStoI == ("1000" :> 1000) @@ ("2000Hz" :> 2000) @@ ("0" :> 0) @@ ("-5" :> -5)
            @@ ("" :> Unparsable) @@ ("loud" :> Unparsable)

MCConfigs ==
    {<<>>, <<NoEntry, Entry("volume", "2000Hz")>>}
    \cup {<<Entry("frequency_hz", v)>> : v \in DOMAIN MCStoI}
    \cup {<<NoEntry, Entry("frequency_hz", "1000"), Entry("frequency_hz", "2000Hz")>>}

MCAllFailures == {"open", "pwm_path", "pwm_open", "pwm_write", "set", "get", "stuck"}
=============================================================================
