------------------------------- MODULE Packed -------------------------------
(* Numbers that share a byte or a word: half bytes and bits.                 *)
EXTENDS LaneKernels

----------------------------------------------------------------------------
(* crates/simd/src/halfbyte.rs: products of the two four-bit numbers in each *)
(* byte.                                                                     *)

reduce_sum_of_xy_v4_avx512vnni ==
    SumsOf(<<"lo", "hi">>, <<1, 1>>, <<Full(64, <<0>>), Masked(64, 0)>>)
reduce_sum_of_xy_v4 ==
    SumsOf(<<"lo", "hi">>, <<1, 1>>, <<Full(64, <<0>>), Masked(64, 0)>>)
reduce_sum_of_xy_v3 ==
    SumsOf(<<"lo", "hi">>, <<1, 1>>, <<Full(32, <<0>>), partial_load(32, <<0>>, "zero")>>)
reduce_sum_of_xy_v2 ==
    SumsOf(<<"lo", "hi">>, <<1, 1>>, <<Full(16, <<0>>), partial_load(16, <<0>>, "zero")>>)
halfbyte_reduce_sum_of_xy_a2_dotprod ==
    SumsOf(<<"lo", "hi">>, <<1, 1>>, <<Full(16, <<0>>), partial_load(16, <<0>>, "zero")>>)
reduce_sum_of_xy_a2_dotprod == halfbyte_reduce_sum_of_xy_a2_dotprod
reduce_sum_of_xy_a2 ==
    SumsOf(<<"lo", "hi">>, <<1, 1>>, <<Full(16, <<0, 1>>), partial_load(16, <<0, 1>>, "zero")>>)
reduce_sum_of_xy ==
    Versions("u8", {reduce_sum_of_xy_v4_avx512vnni, reduce_sum_of_xy_v4, reduce_sum_of_xy_v3,
                    reduce_sum_of_xy_v2, reduce_sum_of_xy_a2_dotprod, reduce_sum_of_xy_a2},
             SumsOf(<<"lo", "hi">>, <<1, 1>>, Scalar))

----------------------------------------------------------------------------
(* crates/simd/src/bit.rs: population counts over u64 slices.                *)

reduce_sum_of_and_v4_avx512vpopcntdq == SumOf("and", {0}, <<Full(8, <<0>>), Masked(8, 0)>>)
reduce_sum_of_and_v4 == SumOf("and", {0}, <<Full(8, <<0>>), Masked(8, 0)>>)
reduce_sum_of_and_v3 == SumOf("and", {0}, <<Full(4, <<0>>), partial_load(4, <<0>>, "zero")>>)
reduce_sum_of_and ==
    Versions("u64", {reduce_sum_of_and_v4_avx512vpopcntdq,
                     reduce_sum_of_and_v4,
                     reduce_sum_of_and_v3},
             SumOf("and", {0}, Scalar))

reduce_sum_of_or_v4_avx512vpopcntdq == SumOf("or", {0}, <<Full(8, <<0>>), Masked(8, 0)>>)
reduce_sum_of_or_v4 == SumOf("or", {0}, <<Full(8, <<0>>), Masked(8, 0)>>)
reduce_sum_of_or_v3 == SumOf("or", {0}, <<Full(4, <<0>>), partial_load(4, <<0>>, "zero")>>)
reduce_sum_of_or ==
    Versions("u64", {reduce_sum_of_or_v4_avx512vpopcntdq,
                     reduce_sum_of_or_v4,
                     reduce_sum_of_or_v3},
             SumOf("or", {0}, Scalar))

reduce_sum_of_xor_v4_avx512vpopcntdq == SumOf("xor", {0}, <<Full(8, <<0>>), Masked(8, 0)>>)
reduce_sum_of_xor_v4 == SumOf("xor", {0}, <<Full(8, <<0>>), Masked(8, 0)>>)
reduce_sum_of_xor_v3 == SumOf("xor", {0}, <<Full(4, <<0>>), partial_load(4, <<0>>, "zero")>>)
reduce_sum_of_xor ==
    Versions("u64", {reduce_sum_of_xor_v4_avx512vpopcntdq,
                     reduce_sum_of_xor_v4,
                     reduce_sum_of_xor_v3},
             SumOf("xor", {0}, Scalar))

reduce_sum_of_and_or_v4_avx512vpopcntdq ==
    SumsOf(<<"and", "or">>, <<>>, <<Full(8, <<0>>), Masked(8, 0)>>)
reduce_sum_of_and_or_v4 == SumsOf(<<"and", "or">>, <<>>, <<Full(8, <<0>>), Masked(8, 0)>>)
reduce_sum_of_and_or_v3 ==
    SumsOf(<<"and", "or">>, <<>>, <<Full(4, <<0>>), partial_load(4, <<0>>, "zero")>>)
reduce_sum_of_and_or ==
    Versions("u64", {reduce_sum_of_and_or_v4_avx512vpopcntdq,
                     reduce_sum_of_and_or_v4,
                     reduce_sum_of_and_or_v3},
             SumsOf(<<"and", "or">>, <<>>, Scalar))

reduce_sum_of_x_v4_avx512vpopcntdq == SumOf("ones", {0}, <<Full(8, <<0>>), Masked(8, 0)>>)
reduce_sum_of_x_v4 == SumOf("ones", {0}, <<Full(8, <<0>>), Masked(8, 0)>>)
reduce_sum_of_x_v3 == SumOf("ones", {0}, <<Full(4, <<0>>), partial_load(4, <<0>>, "zero")>>)
reduce_sum_of_x ==
    Versions("u64", {reduce_sum_of_x_v4_avx512vpopcntdq,
                     reduce_sum_of_x_v4,
                     reduce_sum_of_x_v3},
             SumOf("ones", {0}, Scalar))

Kernels == {reduce_sum_of_xy, reduce_sum_of_and, reduce_sum_of_or, reduce_sum_of_xor, reduce_sum_of_and_or,
            reduce_sum_of_x}
=============================================================================
