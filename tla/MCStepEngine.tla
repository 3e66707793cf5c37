----------------------------- MODULE MCStepEngine -----------------------------
(* Workflows of up to three steps that combine every strategy, a fallback, the *)
(* retry default, a condition with an empty branch and one with two branches.  *)
EXTENDS StepEngine

Retry(n) == Call("retry", n, FALSE)
RetryOrFallback(n) == Call("retry", n, TRUE)
Plain == Call("none", 0, FALSE)
Skip == Call("skip", 0, FALSE)
Halt == Call("halt", 0, FALSE)

MCDefinitions ==
    { <<Plain, Halt>>,
      <<Skip, RetryOrFallback(2), Plain>>,
      <<RetryOrFallback(0), Skip>>,
      <<Retry(1), Retry(2)>>,
      <<Condition("equals", "a", <<Skip, RetryOrFallback(1)>>, <<>>), Plain>>,
      <<Skip, Condition("is_empty", "none", <<Halt>>, <<Retry(1)>>)>>,
      <<Condition("not_equals", "a", <<Plain>>, <<Skip>>)>>,
      <<Condition("exists", "none", <<Halt>>, <<>>), Skip>> }

MCLevels == {"strict", "edges", "none"}

MCMessages ==
    {Message(TRUE, field, FALSE) : field \in {"a", "missing", "null"}}
        \cup {Message(FALSE, "missing", FALSE), Message(TRUE, "b", TRUE)}

MCSeverities == {"fatal", "warning", "retryable"}
=============================================================================
